---------------------------- MODULE Spec2Model ----------------------------
(***************************************************************************)
(* Device memory protocol and ringbuffer extraction core of               *)
(* libdivecomputer: the packet transfer with retry of both device         *)
(* families (oceanic_atom2_transfer, suunto_common2_transfer), the        *)
(* linked-chain dive extractor (suunto_common2_device_foreach) and the    *)
(* paired-ringbuffer dive extractor (oceanic_atom2_read_dives), and the   *)
(* sample decoder (uwatec_memomouse_parser_samples_foreach) with the      *)
(* timestamp conversion (uwatec_memomouse_parser_get_datetime).           *)
(*                                                                         *)
(* Nine specifications share  the module, each leaving the variables of    *)
(* the others at their initial values:                                    *)
(*   SpecTransfer   one call of transfer, step by step on the transport   *)
(*   SpecForeach    set_fingerprint followed by one Family-B foreach      *)
(*   SpecForeachFair one Family-B foreach that goes on until it returns   *)
(*   SpecReadDives  one Family-A read_dives                               *)
(*   SpecExtractors one run of either extractor                           *)
(*   SpecSamples    one call of the parser's samples_foreach              *)
(*   SpecDeviceRead one call of the Family-B device_read                  *)
(*   SpecReadRingbuffer one call of the Family-A read_ringbuffer          *)
(*   SpecDatetime   one call of the parser's get_datetime                 *)
(***************************************************************************)
EXTENDS Integers, Sequences, FiniteSets, TLC

VARIABLES
    \* ---- packet transfer (both families) ----
    family,      \* "A" (oceanic_atom2) or "B" (suunto_common2)
    handshake,   \* Family A: the handshake argument of transfer
    packetfn,    \* Family B: "set" or "null" (BACKEND (abstract)->packet)
    tpc,         \* position inside transfer
    nretries,    \* Family B: nretries; Family A: the loop counter i
    prc,         \* Family B: the status the packet function returned
    trc,         \* status transfer returned ("NONE" while running)
    answer,      \* the bytes serial_read delivered in this attempt
    tlog,        \* transport steps performed so far, in order
    \* ---- Family B: the device and the session ----
    mem,         \* device memory: address -> byte
    version0,    \* first byte of the device's version answer (the model)
    fingerprint, \* device->fingerprint
    fpcall,      \* the last call of set_fingerprint: its size, data, status
    callback,    \* "fn" or "null": the callback argument of foreach
    \* ---- Family B: one call of foreach ----
    pc,          \* position inside foreach
    rc,          \* status foreach returned ("NONE" while running)
    local,       \* the local variables of foreach, by their names
    data,        \* the scratch buffer: index -> byte, -1 where indeterminate
    heap,        \* the scratch buffer's block: "none", "allocated", "freed"
    wrange,      \* lowest and highest buffer index written so far
    cmds,        \* read commands put on the wire so far: [address, count]
    dives,       \* dives the traversal has handled so far, newest first
    progress,    \* the progress record: current, maximum
    emitted,     \* progress events emitted so far
    \* ---- Family A: the device, the build and one call of read_dives ----
    amem,        \* device memory, by the parameters of its image
    acallback,   \* "fn" or "null": the callback argument of read_dives
    astop,       \* the invocation the callback answers with false (0: none)
    ndebug,      \* TRUE when the build compiles the assertions out
    apc,         \* position inside read_dives
    arc,         \* status read_dives returned ("NONE" while running)
    alocal,      \* the local variables of read_dives, by their names
    logbooks,    \* the array logbooks: the read_memory calls that filled it
    areads,      \* calls of read_memory so far: address, size, status
    acalls,      \* invocations of the callback so far, newest dive first
    \* ---- the record parser: one call of samples_foreach ----
    precord,     \* the record: its size, model byte and byte pattern
    pcallback,   \* "fn" or "null": the callback argument of samples_foreach
    ppc,         \* position inside samples_foreach
    pstatus,     \* status samples_foreach returned ("NONE" while running)
    plocal,      \* the local variables time and offset
    psamples,    \* samples handed to the callback so far, in order
    phigh,       \* highest index of the record read so far (-1: none)
    \* ---- Family B: one call of suunto_common2_device_read ----
    rreq,        \* the arguments of the call: address, size
    rpc,         \* position inside device_read
    rstatus,     \* status device_read returned ("NONE" while running)
    rlocal,      \* the local variable nbytes and the moving address
    rcmds,       \* read commands put on the wire so far: address, count
    rdata,       \* bytes stored in the caller's buffer so far: address, byte
    \* ---- Family A: one call of oceanic_atom2_read_ringbuffer ----
    qreq,        \* the arguments address, size, begin, end, and the build
    qpc,         \* "call", "done" or "abort" (a failed assertion)
    qstatus,     \* status read_ringbuffer returned ("NONE" before)
    qreads,      \* calls of read_memory it made: address, size, status
    qdata,       \* ranges of device memory stored at data, in order
    \* ---- the record parser: one call of get_datetime ----
    dreq,        \* the record (its size and its bytes), devtime, systime,
                 \* and the width of dc_ticks_t in the build
    dpc,         \* position inside get_datetime
    dstatus,     \* status get_datetime returned ("NONE" while running)
    dticks       \* the ticks handed to dc_datetime_localtime, <<>> before

tvars == <<family, handshake, packetfn, tpc, nretries, prc, trc, answer, tlog>>

devvars == <<mem, version0>>

sessvars == <<fingerprint, fpcall, callback>>

fevars == <<pc, rc, local, data, heap, wrange, cmds, dives, progress, emitted>>

bvars == <<devvars, sessvars, fevars>>

avars == <<amem, acallback, astop, ndebug, apc, arc, alocal, logbooks, areads, acalls>>

pvars == <<precord, pcallback, ppc, pstatus, plocal, psamples, phigh>>

rvars == <<rreq, rpc, rstatus, rlocal, rcmds, rdata>>

qvars == <<qreq, qpc, qstatus, qreads, qdata>>

dvars == <<dreq, dpc, dstatus, dticks>>

vars == <<tvars, bvars, avars, pvars, rvars, qvars, dvars>>

-----------------------------------------------------------------------------
(* Status codes of dc_status_t and of the OCEANIC error enum, by name.     *)

TransferStatus == {"SUCCESS", "TIMEOUT", "PROTOCOL", "IO", "UNSUPPORTED"}

-----------------------------------------------------------------------------
(* Program constants.                                                      *)

MAXRETRIES == 2

SZ_VERSION == 4

SZ_PACKET == 120

SZ_MINIMUM == 8

FP_OFFSET == 21

\* The model byte of the HelO2, whose fingerprint lies 6 bytes further.
HELO2 == 21

\* Address of the 8 header bytes: last, count, end, begin.
HEADER_ADDRESS == 400

\* The layout of the device (suunto_common2_layout_t) and the width of the
\* session's fingerprint array.
layout_serial == 35

rb_profile_begin == 410

sizeof_fingerprint == 7

\* Family A: the ringbuffers of the logbook and of the profiles, the address
\* of the pointers block and the size of a packet.
RB_LOGBOOK_EMPTY == 560

RB_LOGBOOK_BEGIN == 576

RB_LOGBOOK_END == 2624

RB_PROFILE_EMPTY == 2624

RB_PROFILE_BEGIN == 2640

RB_PROFILE_END == 65520

POINTERS_ADDRESS == 64

OCEANIC_ATOM2_PACKET_SIZE == 16

-----------------------------------------------------------------------------
(* Bounds of the model.                                                    *)

\* Number of payload bytes of the answer a transfer waits for.
PayloadSize == 1

\* Number of bytes of the profile ringbuffer: more than one full packet.
RingSize == 140

\* Most dives a generated memory image links into its chain.
MaxDives == 3

\* Latest invocation at which a generated callback answers false.
MaxStop == 2

\* Largest size of a record handed to the parser: six sample words and two
\* vendor blocks behind the longest header.
MaxRecord == 60

\* Largest size of a call of device_read: one full package and a short one.
MaxRead == 130

\* Most packets of a generated call of read_ringbuffer that is shorter than
\* its ring.
MaxPackets == 3

rb_profile_end == rb_profile_begin + RingSize

-----------------------------------------------------------------------------
(* Checksums.                                                              *)

RECURSIVE SumBytes(_, _)
SumBytes(s, init) ==
    IF s = <<>> THEN init ELSE SumBytes(Tail(s), (init + Head(s)) % 256)

\* crc += data[i] over an unsigned char.
oceanic_atom2_checksum(bytes, init) == SumBytes(bytes, init)

RECURSIVE Xor8(_, _)
Xor8(a, b) ==
    IF a = 0 THEN b
    ELSE IF b = 0 THEN a
    ELSE (((a % 2) + (b % 2)) % 2) + 2 * Xor8(a \div 2, b \div 2)

RECURSIVE checksum_xor_uint8(_, _)
checksum_xor_uint8(bytes, init) ==
    IF bytes = <<>> THEN init
    ELSE checksum_xor_uint8(Tail(bytes), Xor8(init, Head(bytes)))

-----------------------------------------------------------------------------
(* The transport: what one serial_read can deliver.                        *)

\* asize.  Family A: header byte, payload, checksum.  Family B: command
\* byte, 0x00, payload length, payload, checksum (asize >= size + 4).
AnswerSize(fam) == IF fam = "A" THEN PayloadSize + 2 ELSE PayloadSize + 4

\* Byte values an answer is built from: the header bytes of Family A (0x5A,
\* 0xA5), the command byte of Family B (0x05), zero and the payload length
\* of a Family-B frame, so that right and wrong headers, lengths and
\* checksums all occur.
AnswerBytes == {0, 5, 90, 165} \cup {PayloadSize}

Answers(fam) == [1..AnswerSize(fam) -> AnswerBytes]

LogStep(step, res) == Append(tlog, [att |-> nretries + 1, step |-> step, res |-> res])

-----------------------------------------------------------------------------
(* Family A: oceanic_atom2_transfer.                                       *)

\* The retry test of the receive branch: if (i < MAXRETRIES) continue.
AtomRetryOffByOne(i) == i <= MAXRETRIES
AtomRetry(i) == i < MAXRETRIES

\* unsigned char header = (handshake ? 0xA5 : 0x5A); answer[0] != header
AtomHeaderOk(ans, hs) == ans[1] = (IF hs THEN 165 ELSE 90)

\* crc = answer[asize - 1]; ccrc = checksum (answer + 1, asize - 2, 0x00)
AtomCrcOk(ans) ==
    ans[Len(ans)] = oceanic_atom2_checksum(SubSeq(ans, 2, Len(ans) - 1), 0)

\* oceanic_atom2_send: serial_write; its return value is discarded.
AtomWrite ==
    /\ family = "A" /\ tpc = "write"
    /\ \E res \in {"ok", "io"} : tlog' = LogStep("write", res)
    /\ tpc' = "drain"
    /\ UNCHANGED <<family, handshake, packetfn, nretries, prc, trc, answer>>

\* oceanic_atom2_send: serial_drain; its return value is discarded and send
\* returns OCEANIC_SUCCESS, so the caller's test of rc never fails.
AtomDrain ==
    /\ family = "A" /\ tpc = "drain"
    /\ \E res \in {"ok", "io"} : tlog' = LogStep("drain", res)
    /\ tpc' = "read"
    /\ UNCHANGED <<family, handshake, packetfn, nretries, prc, trc, answer>>

\* rc = serial_read (answer, asize): asize bytes, -1, or fewer bytes.
AtomRead ==
    /\ family = "A" /\ tpc = "read"
    /\ \/ \E ans \in Answers(family) :
            /\ answer' = ans
            /\ tlog' = LogStep("read", "ok")
            /\ tpc' = "verify"
            /\ UNCHANGED <<nretries, trc>>
       \/ /\ tlog' = LogStep("read", "io")
          /\ tpc' = "done" /\ trc' = "IO"
          /\ UNCHANGED <<nretries, answer>>
       \/ /\ tlog' = LogStep("read", "timeout")
          /\ IF AtomRetry(nretries)
                THEN /\ nretries' = nretries + 1
                     /\ tpc' = "write"
                     /\ UNCHANGED trc
                ELSE /\ tpc' = "done" /\ trc' = "TIMEOUT"
                     /\ UNCHANGED nretries
          /\ UNCHANGED answer
    /\ UNCHANGED <<family, handshake, packetfn, prc>>

\* Header and checksum verification: a mismatch returns
\* OCEANIC_ERROR_PROTOCOL from inside the loop.
AtomVerify ==
    /\ family = "A" /\ tpc = "verify"
    /\ IF ~AtomHeaderOk(answer, handshake)
          THEN /\ tlog' = LogStep("verify", "protocol")
               /\ trc' = "PROTOCOL"
          ELSE IF ~AtomCrcOk(answer)
          THEN /\ tlog' = LogStep("verify", "protocol")
               /\ trc' = "PROTOCOL"
          ELSE /\ tlog' = LogStep("verify", "ok")
               /\ trc' = "SUCCESS"
    /\ tpc' = "done"
    /\ UNCHANGED <<family, handshake, packetfn, nretries, prc, answer>>

-----------------------------------------------------------------------------
(* Family B: the packet function of the backend, then                      *)
(* suunto_common2_transfer's loop around it.                               *)

\* verify of framing variant F2 on the response [0x05, 0x00, plen,
\* payload, xor]: header, length, checksum.
PacketFrameOk(ans) ==
    /\ ans[1] = 5
    /\ ans[2] = 0
    /\ ans[3] = Len(ans) - 4
    /\ ans[Len(ans)] = checksum_xor_uint8(SubSeq(ans, 1, Len(ans) - 1), 0)

PacketWrite ==
    /\ family = "B" /\ tpc = "write"
    /\ \E res \in {"ok", "io"} :
          /\ tlog' = LogStep("write", res)
          /\ IF res = "ok" THEN tpc' = "drain" /\ UNCHANGED prc
                           ELSE tpc' = "result" /\ prc' = "IO"
    /\ UNCHANGED <<family, handshake, packetfn, nretries, trc, answer>>

PacketDrain ==
    /\ family = "B" /\ tpc = "drain"
    /\ \E res \in {"ok", "io"} :
          /\ tlog' = LogStep("drain", res)
          /\ IF res = "ok" THEN tpc' = "read" /\ UNCHANGED prc
                           ELSE tpc' = "result" /\ prc' = "IO"
    /\ UNCHANGED <<family, handshake, packetfn, nretries, trc, answer>>

PacketRead ==
    /\ family = "B" /\ tpc = "read"
    /\ \/ \E ans \in Answers(family) :
            /\ answer' = ans
            /\ tlog' = LogStep("read", "ok")
            /\ tpc' = "verify"
            /\ UNCHANGED prc
       \/ \E res \in {"io", "timeout"} :
            /\ tlog' = LogStep("read", res)
            /\ tpc' = "result"
            /\ prc' = (IF res = "io" THEN "IO" ELSE "TIMEOUT")
            /\ UNCHANGED answer
    /\ UNCHANGED <<family, handshake, packetfn, nretries, trc>>

PacketVerify ==
    /\ family = "B" /\ tpc = "verify"
    /\ IF PacketFrameOk(answer)
          THEN tlog' = LogStep("verify", "ok") /\ prc' = "SUCCESS"
          ELSE tlog' = LogStep("verify", "protocol") /\ prc' = "PROTOCOL"
    /\ tpc' = "result"
    /\ UNCHANGED <<family, handshake, packetfn, nretries, trc, answer>>

\* if (rc != DC_STATUS_TIMEOUT && rc != DC_STATUS_PROTOCOL) return rc;
Common2RetryableTimeoutOnly(s) == s = "TIMEOUT"
Common2Retryable(s) == s = "TIMEOUT" \/ s = "PROTOCOL"

\* if (nretries++ >= MAXRETRIES) return rc;
Common2ExhaustedOffByOne(n) == n > MAXRETRIES
Common2Exhausted(n) == n >= MAXRETRIES

\* if (BACKEND (abstract)->packet == NULL) return DC_STATUS_UNSUPPORTED;
Common2TransferEnter ==
    /\ family = "B" /\ tpc = "call"
    /\ IF packetfn = "null"
          THEN tpc' = "done" /\ trc' = "UNSUPPORTED"
          ELSE tpc' = "write" /\ UNCHANGED trc
    /\ UNCHANGED <<family, handshake, packetfn, nretries, prc, answer, tlog>>

\* One evaluation of the while condition and, on failure, of the loop body.
Common2TransferLoop ==
    /\ family = "B" /\ tpc = "result"
    /\ IF prc = "SUCCESS"
          THEN tpc' = "done" /\ trc' = "SUCCESS" /\ UNCHANGED nretries
          ELSE IF ~Common2Retryable(prc)
          THEN tpc' = "done" /\ trc' = prc /\ UNCHANGED nretries
          ELSE IF Common2Exhausted(nretries)
          THEN tpc' = "done" /\ trc' = prc /\ nretries' = nretries + 1
          ELSE tpc' = "write" /\ nretries' = nretries + 1 /\ UNCHANGED trc
    \* The next attempt overwrites answer; nothing reads the stale bytes.
    /\ answer' = (IF tpc' = "write" THEN <<>> ELSE answer)
    /\ UNCHANGED <<family, handshake, packetfn, prc, tlog>>

AtomTransferEnter ==
    /\ family = "A" /\ tpc = "call"
    /\ tpc' = "write"
    /\ UNCHANGED <<family, handshake, packetfn, nretries, prc, trc, answer, tlog>>

-----------------------------------------------------------------------------
(* Family B: utilities.                                                    *)

\* ringbuffer_distance (a, b, mode, begin, end): the bytes from a forward
\* to b; a == b counts as the whole ring when mode is set and as 0 when not.
ringbuffer_distance(a, b, mode, begin, end) ==
    IF a < b \/ (a = b /\ mode = 0)
        THEN b - a
        ELSE (end - begin) - (a - b)

\* RB_PROFILE_DISTANCE (l, a, b, m)
RB_PROFILE_DISTANCE(a, b, m) ==
    ringbuffer_distance(a, b, m, rb_profile_begin, rb_profile_end)

\* array_uint16_le
array_uint16_le(lo, hi) == lo + 256 * hi

\* The range test applied to last, end, begin, prev and next.
ValidPointerEndIncluded(p) == p >= rb_profile_begin /\ p <= rb_profile_end
ValidPointer(p) == p >= rb_profile_begin /\ p < rb_profile_end

\* Addresses of the device memory the model holds: the header bytes, the
\* bytes up to the ringbuffer (a padded read reaches below rb_profile_begin)
\* and the profile ringbuffer.
MemAddrs == HEADER_ADDRESS..(rb_profile_end - 1)

\* The address n bytes after (before) a in ring order.
RingFwd(a, n) == rb_profile_begin + ((a - rb_profile_begin + n) % RingSize)
RingBack(a, n) == rb_profile_begin + ((a - rb_profile_begin - n) % RingSize)

\* The size bytes of the ringbuffer that start at address a, in ring order.
RingBytes(m, a, n) == [i \in 1..n |-> m[RingFwd(a, i - 1)]]

\* The 16-bit little-endian word at ring address a.
RingWord(m, a) == array_uint16_le(m[a], m[RingFwd(a, 1)])

\* The header fields as the device holds them.
HeaderOf(m) ==
    [last  |-> array_uint16_le(m[HEADER_ADDRESS], m[HEADER_ADDRESS + 1]),
     count |-> array_uint16_le(m[HEADER_ADDRESS + 2], m[HEADER_ADDRESS + 3]),
     end   |-> array_uint16_le(m[HEADER_ADDRESS + 4], m[HEADER_ADDRESS + 5]),
     begin |-> array_uint16_le(m[HEADER_ADDRESS + 6], m[HEADER_ADDRESS + 7])]

HeaderValid(m) ==
    /\ ValidPointer(HeaderOf(m).last)
    /\ ValidPointer(HeaderOf(m).end)
    /\ ValidPointer(HeaderOf(m).begin)

\* fp_offset: FP_OFFSET, 6 bytes further for the HelO2.
FpOffsetIgnoringModel(model) == FP_OFFSET
FpOffset(model) == IF model = HELO2 THEN FP_OFFSET + 6 ELSE FP_OFFSET

ZeroFingerprint == [j \in 1..sizeof_fingerprint |-> 0]

-----------------------------------------------------------------------------
(* Family B: the memory images a run starts from.  An image holds a chain  *)
(* of dives laid out backwards from the end pointer, each dive starting    *)
(* with its prev and next pointers, and at most one 16-bit word of the     *)
(* header or of a dive replaced by another value.                          *)

RECURSIVE SumFirst(_, _)
SumFirst(sizes, k) == IF k = 0 THEN 0 ELSE sizes[k] + SumFirst(sizes, k - 1)

\* Sizes of a dive: too short to hold the fingerprint slice, and long
\* enough for it in every model.
DiveSizes == {6, FP_OFFSET + 6 + sizeof_fingerprint + 10}

\* Chains of up to MaxDives dives, and chains that fill the whole ring
\* (begin == end with count != 0): their oldest dive takes what is left.
ChainSizes ==
    LET seqs(n) == [1..n -> DiveSizes]
        plain == UNION {seqs(n) : n \in 0..MaxDives}
        long == FP_OFFSET + 6 + sizeof_fingerprint + 10
        full == {[i \in 1..n |-> IF i = n THEN RingSize - (n - 1) * long ELSE long] :
                    n \in 1..MaxDives}
    IN  {sz \in plain \cup full : SumFirst(sz, Len(sz)) <= RingSize}

\* Offsets of the end pointer inside the ring: the newest dive wraps after
\* 3 bytes, the chain wraps in its second packet, the chain does not wrap.
EndOffsets == {3, FP_OFFSET + 6 + sizeof_fingerprint + 16, RingSize - 2}

\* A byte of sample data: never zero, and different at addresses less than
\* 251 apart.
DataByte(a) == ((a * 7) % 251) + 1

\* Start address of dive k (1 is the newest) of a chain ending at endp.
DiveStart(endp, sizes, k) == RingBack(endp, SumFirst(sizes, k))

\* The words a corruption can replace: <<0, field>> in the header,
\* <<k, "prev">> and <<k, "next">> in dive k.
NoCorruption == [key |-> <<0, "none">>, val |-> 0]

Corruptions(endp, sizes) ==
    LET n == Len(sizes)
        bad == {rb_profile_begin - 1, rb_profile_end, RingFwd(endp, 1)}
    IN  {NoCorruption}
        \cup [key : {<<0, "last">>, <<0, "end">>, <<0, "begin">>}, val : bad]
        \cup [key : {<<0, "count">>}, val : {0, n + 1}]
        \cup [key : {<<k, f>> : k \in 1..n, f \in {"prev", "next"}}, val : bad]
        \cup {[key |-> <<k, "next">>, val |-> DiveStart(endp, sizes, k)] : k \in 1..n}

SelfLinks(endp, sizes) ==
    {[key |-> <<k, "next">>, val |-> DiveStart(endp, sizes, k)] : k \in 1..Len(sizes)}

\* The memory image: endoff and sizes place the chain, dive number zero (if
\* any) holds zero bytes after its pointers, and corrupt replaces one word.
Image(endoff, sizes, zero, corrupt) ==
    LET n == Len(sizes)
        endp == rb_profile_begin + endoff
        start(k) == DiveStart(endp, sizes, k)
        word(key, normal) == IF corrupt.key = key THEN corrupt.val ELSE normal
        hdr == <<word(<<0, "last">>, IF n = 0 THEN endp ELSE start(1)),
                 word(<<0, "count">>, n),
                 word(<<0, "end">>, endp),
                 word(<<0, "begin">>, start(n))>>
        prev(k) == word(<<k, "prev">>, IF k = n THEN endp ELSE start(k + 1))
        next(k) == word(<<k, "next">>, IF k = 1 THEN endp ELSE start(k - 1))
        byteof(w, i) == IF i % 2 = 0 THEN w % 256 ELSE w \div 256
        owner(a) == {k \in 1..n : ((a - start(k)) % RingSize) < sizes[k]}
        ringbyte(a) ==
            IF owner(a) = {} THEN DataByte(a)
            ELSE LET k == CHOOSE k \in owner(a) : TRUE
                     o == (a - start(k)) % RingSize
                 IN  IF o < 2 THEN byteof(prev(k), o)
                     ELSE IF o < 4 THEN byteof(next(k), o)
                     ELSE IF k = zero THEN 0
                     ELSE DataByte(a)
    IN  [a \in MemAddrs |->
            IF a < HEADER_ADDRESS + 8
                THEN byteof(hdr[((a - HEADER_ADDRESS) \div 2) + 1], a - HEADER_ADDRESS)
            ELSE IF a < rb_profile_begin THEN DataByte(a)
            ELSE ringbyte(a)]

\* The chain as the device memory holds it, read in ring order from last:
\* the dives up to the one that breaks the chain or uses up the bytes
\* between begin and end.
RECURSIVE ChainFrom(_, _, _, _)
ChainFrom(m, cur, prv, rem) ==
    IF rem = 0 THEN <<>>
    ELSE LET sz == RB_PROFILE_DISTANCE(cur, prv, 1)
             p == RingWord(m, cur)
             n == RingWord(m, RingFwd(cur, 2))
             d == [addr |-> cur, size |-> sz, prev |-> p, next |-> n]
         IN  IF sz < 4 \/ sz > rem THEN <<>>
             ELSE IF ~ValidPointer(p) \/ ~ValidPointer(n) THEN <<>>
             ELSE IF n # prv /\ n # cur THEN <<>>
             ELSE <<d>> \o ChainFrom(m, p, cur, rem - sz)

Remaining(m) ==
    RB_PROFILE_DISTANCE(HeaderOf(m).begin, HeaderOf(m).end,
                        IF HeaderOf(m).count # 0 THEN 1 ELSE 0)

Chain(m) ==
    IF ~HeaderValid(m) THEN <<>>
    ELSE ChainFrom(m, HeaderOf(m).last, HeaderOf(m).end, Remaining(m))

RECURSIVE SumSizes(_)
SumSizes(ch) == IF ch = <<>> THEN 0 ELSE Head(ch).size + SumSizes(Tail(ch))

\* The chain is whole: its dives use up the bytes between begin and end.
ChainWhole(m) == HeaderValid(m) /\ SumSizes(Chain(m)) = Remaining(m)

\* The fingerprint slice of the dive that starts at ring address a.
SliceOf(m, a, model) == RingBytes(m, RingFwd(a, FpOffset(model)), sizeof_fingerprint)

-----------------------------------------------------------------------------
(* Family B: suunto_common2_device_set_fingerprint.                        *)

\* The data a caller passes: the zero fingerprint or the slice of a dive of
\* the chain, as an earlier download delivered it.
FingerprintData(m, model) ==
    {ZeroFingerprint} \cup
    {SliceOf(m, Chain(m)[k].addr, model) : k \in 1..Len(Chain(m))}

NoFpCall == [size |-> -1, data |-> <<>>, rc |-> "NONE"]

SetFingerprint ==
    /\ pc = "idle"
    /\ fpcall = NoFpCall
    /\ \E size \in {0, sizeof_fingerprint, sizeof_fingerprint - 1} :
       \E d \in FingerprintData(mem, version0) :
          LET bytes == SubSeq(d, 1, size)
          IN  /\ (size # sizeof_fingerprint => d = ZeroFingerprint)
              /\ IF size # 0 /\ size # sizeof_fingerprint
                    THEN /\ fpcall' = [size |-> size, data |-> bytes, rc |-> "INVALIDARGS"]
                         /\ UNCHANGED fingerprint
                    ELSE /\ fpcall' = [size |-> size, data |-> bytes, rc |-> "SUCCESS"]
                         /\ fingerprint' = (IF size # 0 THEN bytes ELSE ZeroFingerprint)
    /\ UNCHANGED <<devvars, callback, fevars>>

-----------------------------------------------------------------------------
(* Family B: suunto_common2_device_read.                                   *)

TransferErrors == {"TIMEOUT", "PROTOCOL", "IO"}

\* The read commands of one call, in order: packages of at most SZ_PACKET
\* bytes, each with its address and its count.
RECURSIVE ReadCommands(_, _)
ReadCommands(address, size) ==
    IF size <= 0 THEN <<>>
    ELSE LET len == IF size > SZ_PACKET THEN SZ_PACKET ELSE size
         IN  <<[address |-> address, count |-> len]>>
                 \o ReadCommands(address + len, size - len)

\* What one call can do: all its commands and success, or the commands up
\* to one whose transfer fails, and that transfer's status.
ReadOutcomes(address, size) ==
    LET all == ReadCommands(address, size)
    IN  {[rc |-> "SUCCESS", sent |-> all]} \cup
        {[rc |-> e, sent |-> SubSeq(all, 1, j)] : e \in TransferErrors, j \in 1..Len(all)}

\* The bytes a successful call stores: memcpy (data, answer + 6, len).
ReadBytes(m, address, size) == [i \in 1..size |-> m[address + i - 1]]

-----------------------------------------------------------------------------
(* Family B: suunto_common2_device_read, one package at a time.  The       *)
(* device answers a read command with the bytes it holds at the address.   *)

\* The package size: len = size - nbytes, at most SZ_PACKET.
PackageLen(size, nbytes) ==
    IF size - nbytes > SZ_PACKET THEN SZ_PACKET ELSE size - nbytes

\* One pass of the loop: the command with the address and len as its
\* count, the transfer, and the len bytes of the answer stored at data.
DeviceReadPackage ==
    /\ rpc = "loop"
    /\ rlocal.nbytes < rreq.size
    /\ LET len == PackageLen(rreq.size, rlocal.nbytes)
       IN  /\ rcmds' = Append(rcmds, [address |-> rlocal.address, count |-> len])
           /\ \/ \E e \in TransferErrors :
                    /\ rpc' = "done"
                    /\ rstatus' = e
                    /\ UNCHANGED <<rlocal, rdata>>
              \/ /\ rdata' = rdata \o [i \in 1..len |->
                                        [address |-> rlocal.address + i - 1,
                                         byte |-> DataByte(rlocal.address + i - 1)]]
                 /\ rlocal' = [nbytes |-> rlocal.nbytes + len,
                               address |-> rlocal.address + len]
                 /\ UNCHANGED <<rpc, rstatus>>
    /\ UNCHANGED rreq

\* The end of the loop: return DC_STATUS_SUCCESS.
DeviceReadReturn ==
    /\ rpc = "loop"
    /\ rlocal.nbytes >= rreq.size
    /\ rpc' = "done"
    /\ rstatus' = "SUCCESS"
    /\ UNCHANGED <<rreq, rlocal, rcmds, rdata>>

\* The variables of device_read in a specification that does not use them.
DeviceReadUnused ==
    /\ rreq = <<>>
    /\ rpc = "done"
    /\ rstatus = "NONE"
    /\ rlocal = <<>>
    /\ rcmds = <<>>
    /\ rdata = <<>>

-----------------------------------------------------------------------------
(* Family B: suunto_common2_device_foreach.                                *)

BufferSize == rb_profile_end - rb_profile_begin + SZ_MINIMUM

Max(a, b) == IF a > b THEN a ELSE b

Emit(p) == Append(emitted, p)

InitialLocal ==
    [status |-> "SUCCESS", remaining |-> 0, available |-> 0, current |-> 0,
     previous |-> 0, address |-> 0, offset |-> 0, size |-> 0, nbytes |-> 0,
     total |-> 0]

\* Leave foreach with status s; the scratch buffer is freed first when the
\* return comes after the allocation.
ReturnWithoutFree(s, free) ==
    /\ rc' = s
    /\ pc' = "done"
    /\ heap' = heap
Return(s, free) ==
    /\ rc' = s
    /\ pc' = "done"
    /\ heap' = (IF free THEN "freed" ELSE heap)

\* Progress set-up and the version query.
ForeachVersion ==
    /\ pc = "idle"
    /\ LET p0 == [current |-> 0,
                  maximum |-> (rb_profile_end - rb_profile_begin) + 8 + SZ_VERSION
                                  + Max(SZ_MINIMUM, 4)]
           p1 == [p0 EXCEPT !.current = p0.current + SZ_VERSION]
       IN  \/ \E e \in TransferErrors :
                /\ Return(e, FALSE)
                /\ progress' = p0
                /\ emitted' = Append(emitted, p0)
           \/ /\ pc' = "serial"
              /\ progress' = p1
              /\ emitted' = Append(Append(emitted, p0), p1)
              /\ UNCHANGED <<rc, heap>>
    /\ UNCHANGED <<devvars, sessvars, local, data, wrange, cmds, dives>>

\* The serial number: a read of Max(SZ_MINIMUM, 4) bytes at layout->serial.
ForeachSerial ==
    /\ pc = "serial"
    /\ \E o \in ReadOutcomes(layout_serial, Max(SZ_MINIMUM, 4)) :
          /\ cmds' = cmds \o o.sent
          /\ IF o.rc # "SUCCESS"
                THEN /\ Return(o.rc, FALSE)
                     /\ UNCHANGED <<progress, emitted>>
                ELSE /\ pc' = "header"
                     /\ progress' = [progress EXCEPT !.current = @ + Max(SZ_MINIMUM, 4)]
                     /\ emitted' = Emit(progress')
                     /\ UNCHANGED <<rc, heap>>
    /\ UNCHANGED <<devvars, sessvars, local, data, wrange, dives>>

\* The first value of the write cursor: offset = remaining + SZ_MINIMUM.
CursorStartUnpadded(remaining) == remaining
CursorStart(remaining) == remaining + SZ_MINIMUM

\* The header: read, range check of last, end and begin, allocation of the
\* scratch buffer, and the start values of the traversal.
ForeachHeader ==
    /\ pc = "header"
    /\ \E o \in ReadOutcomes(HEADER_ADDRESS, 8) :
          /\ cmds' = cmds \o o.sent
          /\ LET header == ReadBytes(mem, HEADER_ADDRESS, 8)
                 last  == array_uint16_le(header[1], header[2])
                 count == array_uint16_le(header[3], header[4])
                 end   == array_uint16_le(header[5], header[6])
                 begin == array_uint16_le(header[7], header[8])
                 remaining == RB_PROFILE_DISTANCE(begin, end, IF count # 0 THEN 1 ELSE 0)
             IN  IF o.rc # "SUCCESS"
                    THEN /\ Return(o.rc, FALSE)
                         /\ UNCHANGED <<local, data, progress, emitted>>
                 ELSE IF ~ValidPointer(last) \/ ~ValidPointer(end) \/ ~ValidPointer(begin)
                    THEN /\ Return("DATAFORMAT", FALSE)
                         /\ UNCHANGED <<local, data, progress, emitted>>
                 ELSE \/ /\ Return("NOMEMORY", FALSE)
                         /\ UNCHANGED <<local, data, progress, emitted>>
                      \/ /\ heap' = "allocated"
                         /\ data' = [i \in 0..(BufferSize - 1) |-> -1]
                         /\ local' = [local EXCEPT
                                         !.remaining = remaining,
                                         !.total = remaining,
                                         !.available = 0,
                                         !.current = last,
                                         !.previous = end,
                                         !.address = end,
                                         !.offset = CursorStart(remaining)]
                         /\ progress' = [current |-> progress.current + 8,
                                         maximum |-> progress.maximum -
                                             ((rb_profile_end - rb_profile_begin) - remaining)]
                         /\ emitted' = Emit(progress')
                         /\ pc' = "loop"
                         /\ UNCHANGED rc
    /\ UNCHANGED <<devvars, sessvars, wrange, dives>>

\* The size test of a dive: if (size < 4 || size > remaining).
SizeAcceptedNoUpperLimit(size, remaining) == size >= 4
SizeAccepted(size, remaining) == ~(size < 4 \/ size > remaining)

\* The head of the outer loop: while (remaining), the size of the current
\* dive and its test.
ForeachLoop ==
    /\ pc = "loop"
    /\ IF local.remaining = 0
          THEN /\ Return(local.status, TRUE)
               /\ UNCHANGED local
          ELSE LET size == RB_PROFILE_DISTANCE(local.current, local.previous, 1)
               IN  IF ~SizeAccepted(size, local.remaining)
                      THEN /\ Return("DATAFORMAT", TRUE)
                           /\ UNCHANGED local
                      ELSE /\ local' = [local EXCEPT !.size = size,
                                                     !.nbytes = local.available]
                           /\ pc' = "packet"
                           /\ UNCHANGED <<rc, heap>>
    /\ UNCHANGED <<devvars, sessvars, data, wrange, cmds, dives, progress, emitted>>

\* The package size: the largest possible, cut at the begin of the
\* ringbuffer and at the end of the profile data.
PacketLenIgnoringRingBegin(address, nbytes, remaining) ==
    IF nbytes + SZ_PACKET > remaining THEN remaining - nbytes ELSE SZ_PACKET
PacketLenIgnoringProfileEnd(address, nbytes, remaining) ==
    IF rb_profile_begin + SZ_PACKET > address
        THEN address - rb_profile_begin
        ELSE SZ_PACKET
PacketLen(address, nbytes, remaining) ==
    LET len1 == IF rb_profile_begin + SZ_PACKET > address
                   THEN address - rb_profile_begin
                   ELSE SZ_PACKET
    IN  IF nbytes + len1 > remaining THEN remaining - nbytes ELSE len1

\* The write cursor after a package of len bytes: offset -= len.
PacketCursorKept(offset, len) == offset
PacketCursor(offset, len) == offset - len

\* The index at which a package is stored: data + offset - extra.
PacketTargetUnshifted(offset, extra) == offset
PacketTarget(offset, extra) == offset - extra

\* One pass of the inner loop: while (nbytes < size), read one package.
ForeachPacket ==
    /\ pc = "packet"
    /\ local.nbytes < local.size
    /\ LET address1 == IF local.address = rb_profile_begin
                          THEN rb_profile_end
                          ELSE local.address
           len == PacketLen(address1, local.nbytes, local.remaining)
           offset == PacketCursor(local.offset, len)
           address == address1 - len
           extra == IF len < SZ_MINIMUM THEN SZ_MINIMUM - len ELSE 0
           bytes == ReadBytes(mem, address - extra, len + extra)
           target == PacketTarget(offset, extra)
       IN  \E o \in ReadOutcomes(address - extra, len + extra) :
              /\ cmds' = cmds \o o.sent
              /\ IF o.rc # "SUCCESS"
                    THEN /\ Return(o.rc, TRUE)
                         /\ local' = [local EXCEPT !.offset = offset, !.address = address]
                         /\ UNCHANGED <<data, wrange, progress, emitted>>
                    ELSE /\ data' = [i \in DOMAIN data |->
                                        IF i >= target /\ i < target + extra + len
                                           THEN bytes[i - target + 1]
                                           ELSE data[i]]
                         /\ wrange' = [lo |-> IF target < wrange.lo
                                                 THEN target ELSE wrange.lo,
                                       hi |-> IF target + extra + len - 1 > wrange.hi
                                                 THEN target + extra + len - 1
                                                 ELSE wrange.hi]
                         /\ local' = [local EXCEPT !.offset = offset,
                                                   !.address = address,
                                                   !.nbytes = @ + len]
                         /\ progress' = [progress EXCEPT !.current = @ + len]
                         /\ emitted' = Emit(progress')
                         /\ UNCHANGED <<pc, rc, heap>>
    /\ UNCHANGED <<devvars, sessvars, dives>>

\* A byte of the scratch buffer as a read sees it: indeterminate (-1) where
\* nothing was stored and beyond the end of the block.
BufferByte(i) == IF i \in DOMAIN data THEN data[i] ELSE -1

\* The results memcmp (p + fp_offset, device->fingerprint, ...) == 0 can
\* have: decided by the bytes that were stored, either one when all of those
\* agree and a byte of the slice is indeterminate.
FingerprintMatches(slice, fp) ==
    IF \E j \in 1..sizeof_fingerprint : slice[j] # -1 /\ slice[j] # fp[j]
        THEN {FALSE}
    ELSE IF \E j \in 1..sizeof_fingerprint : slice[j] = -1
        THEN {TRUE, FALSE}
    ELSE {TRUE}

\* The linkage test: if (next != previous && next != current).
ContinuousUnchecked(next, previous, current) == TRUE
Continuous(next, previous, current) == ~(next # previous /\ next # current)

\* The status returned when the callback asks to stop.
StatusOnStopLatched(status) == status
StatusOnStop(status) == "SUCCESS"

\* The status returned when the fingerprint matches.
StatusOnMatchLatched(status) == status
StatusOnMatch(status) == "SUCCESS"

\* The place of the current dive in the scratch buffer:
\* p = data + offset + available.
DivePointerAtCursor(offset, available) == offset
DivePointer(offset, available) == offset + available

\* The status latched when an incomplete dive is skipped.
SkipStatusKept(status) == status
SkipStatus(status) == "DATAFORMAT"

\* The test of the callback: if (callback && !callback (...)).
CallbackStopsOnNull(cb, ret) == cb = "null" \/ ~ret
CallbackStops(cb, ret) == cb # "null" /\ ~ret

\* The dive is added to the dives handled so far: as it is, or, when the
\* invocation of the callback is left open, with any of the outcomes that
\* differ in the invocation only.
RecordDive(exact, d) ==
    IF exact
        THEN dives' = Append(dives, d)
        ELSE /\ Len(dives') = Len(dives) + 1
             /\ SubSeq(dives', 1, Len(dives)) = dives
             /\ LET n == dives'[Len(dives')]
                IN  /\ <<n.addr, n.size, n.prev, n.next, n.fp, n.p, n.ncmds>>
                          = <<d.addr, d.size, d.prev, d.next, d.fp, d.p, d.ncmds>>
                    /\ n.outcome \in {"skipped", "match"} => n.outcome = d.outcome
                    /\ d.outcome \in {"skipped", "match"} => n.outcome = d.outcome

\* The rest of a pass of the outer loop: the pointers of the dive, their
\* range and linkage tests, the fingerprint comparison, the callback, and
\* the step to the next dive. cb is the callback argument, answers the
\* values an invocation of it can return, and exact how the pass shows in
\* the dives handled so far.
ForeachDiveBody(cb, answers, exact) ==
    LET remaining == local.remaining - local.size
        available == local.nbytes - local.size
        p == DivePointer(local.offset, available)
        prev == array_uint16_le(BufferByte(p), BufferByte(p + 1))
        next == array_uint16_le(BufferByte(p + 2), BufferByte(p + 3))
        fp_offset == FpOffset(version0)
        slice == [j \in 1..sizeof_fingerprint |-> BufferByte(p + fp_offset + j - 1)]
        dive == [addr |-> local.current, size |-> local.size,
                 prev |-> prev, next |-> next, outcome |-> "skipped",
                 ret |-> TRUE, data |-> <<>>, fp |-> slice,
                 p |-> p, ncmds |-> Len(cmds)]
        step == [local EXCEPT !.remaining = remaining,
                              !.available = available,
                              !.previous = local.current,
                              !.current = prev]
    IN  IF ~ValidPointer(prev) \/ ~ValidPointer(next)
           THEN /\ Return("DATAFORMAT", TRUE)
                /\ local' = [local EXCEPT !.remaining = remaining,
                                          !.available = available]
                /\ UNCHANGED dives
        ELSE IF ~Continuous(next, local.previous, local.current)
           THEN /\ Return("DATAFORMAT", TRUE)
                /\ local' = [local EXCEPT !.remaining = remaining,
                                          !.available = available]
                /\ UNCHANGED dives
        ELSE IF next = local.current
           THEN /\ RecordDive(exact, dive)
                /\ local' = [step EXCEPT !.status = SkipStatus(local.status)]
                /\ pc' = "loop"
                /\ UNCHANGED <<rc, heap>>
        ELSE \E match \in FingerprintMatches(slice, fingerprint) :
               IF match
                  THEN /\ RecordDive(exact, [dive EXCEPT !.outcome = "match"])
                       /\ Return(StatusOnMatch(local.status), TRUE)
                       /\ local' = [local EXCEPT !.remaining = remaining,
                                                 !.available = available]
               ELSE \E ret \in (IF cb = "null" THEN {TRUE} ELSE answers) :
                       /\ RecordDive(exact,
                             IF cb = "null"
                                THEN [dive EXCEPT !.outcome = "nocallback"]
                                ELSE [dive EXCEPT
                                         !.outcome = "callback",
                                         !.ret = ret,
                                         !.data = [i \in 1..(local.size - 4) |->
                                                      BufferByte(p + 4 + i - 1)]])
                       /\ IF CallbackStops(cb, ret)
                             THEN /\ Return(StatusOnStop(local.status), TRUE)
                                  /\ local' = [local EXCEPT !.remaining = remaining,
                                                            !.available = available]
                             ELSE /\ local' = step
                                  /\ pc' = "loop"
                                  /\ UNCHANGED <<rc, heap>>

ForeachDive ==
    /\ pc = "packet"
    /\ local.nbytes >= local.size
    /\ ForeachDiveBody(callback, BOOLEAN, TRUE)
    /\ UNCHANGED <<devvars, sessvars, data, wrange, cmds, progress, emitted>>

-----------------------------------------------------------------------------
(* Family A: the device memory of the paired-ringbuffer extractor.  An     *)
(* image is held by its parameters: the two logbook pointers of the        *)
(* pointers block and the profile pointers of one logbook entry; the       *)
(* bytes follow from them.                                                 *)

\* ringbuffer_distance (a, b, begin, end) of the logbook ringbuffer.
RB_LOGBOOK_DISTANCE(a, b) ==
    ringbuffer_distance(a, b, 0, RB_LOGBOOK_BEGIN, RB_LOGBOOK_END)

\* ringbuffer_distance (a, b, begin, end) of the Family-A profile ringbuffer.
ATOM2_RB_PROFILE_DISTANCE(a, b) ==
    ringbuffer_distance(a, b, 0, RB_PROFILE_BEGIN, RB_PROFILE_END)

\* The pointer macros, on a block x of bytes indexed from 0.
PT_LOGBOOK_FIRST(x) == x[4] + x[5] * 256
PT_LOGBOOK_LAST(x) == x[6] + x[7] * 256
PT_PROFILE_FIRST(x) == x[5] + (x[6] % 16) * 256
PT_PROFILE_LAST(x) == (x[6] \div 16) + x[7] * 16

\* The packet indexes an entry holds when the image does not choose them:
\* two packets of profile data per entry, in the order of the entries.
DefaultProfile(e) ==
    LET n == (e - RB_LOGBOOK_BEGIN) \div (OCEANIC_ATOM2_PACKET_SIZE \div 2)
        idx == (RB_PROFILE_BEGIN \div OCEANIC_ATOM2_PACKET_SIZE) + 2 * n
    IN  [first |-> idx, last |-> idx + 1]

\* The byte of the device memory at address a.
AtomByte(m, a) ==
    IF a >= POINTERS_ADDRESS /\ a < POINTERS_ADDRESS + OCEANIC_ATOM2_PACKET_SIZE
        THEN CASE a - POINTERS_ADDRESS = 4 -> m.logbook_first % 256
               [] a - POINTERS_ADDRESS = 5 -> m.logbook_first \div 256
               [] a - POINTERS_ADDRESS = 6 -> m.logbook_last % 256
               [] a - POINTERS_ADDRESS = 7 -> m.logbook_last \div 256
               [] OTHER -> DataByte(a)
    ELSE IF a >= RB_LOGBOOK_BEGIN /\ a < RB_LOGBOOK_END
        THEN LET o == (a - RB_LOGBOOK_BEGIN) % 8
                 e == a - o
                 p == IF e = m.entry
                         THEN [first |-> m.profile_first, last |-> m.profile_last]
                         ELSE DefaultProfile(e)
             IN  CASE o = 5 -> p.first % 256
                   [] o = 6 -> (p.first \div 256) + (p.last % 16) * 16
                   [] o = 7 -> p.last \div 16
                   [] OTHER -> DataByte(a)
    ELSE DataByte(a)

-----------------------------------------------------------------------------
(* Family A: oceanic_atom2_read_memory and oceanic_atom2_read_ringbuffer.  *)

\* read_ringbuffer: its two assertions, and the calls of read_memory it
\* makes, in order: one, or two when the range passes the end of the ring.
ReadRingbufferUnsplit(address, size, begin, end) ==
    [assert |-> address >= begin /\ address < end /\ size <= end - begin,
     segments |-> <<[address |-> address, size |-> size]>>]
ReadRingbuffer(address, size, begin, end) ==
    [assert |-> address >= begin /\ address < end /\ size <= end - begin,
     segments |->
        IF address + size > end
            THEN <<[address |-> address, size |-> end - address],
                   [address |-> begin, size |-> size - (end - address)]>>
            ELSE <<[address |-> address, size |-> size]>>]

\* What the calls of read_memory can do: all succeed, or one that sends at
\* least one command fails with the status of its transfer and the later
\* ones are not made.
SegmentOutcomes(segments) ==
    LET done(j, s) == [k \in 1..j |->
                          [address |-> segments[k].address,
                           size |-> segments[k].size,
                           rc |-> IF k = j THEN s ELSE "SUCCESS"]]
    IN  {[rc |-> "SUCCESS", reads |-> done(Len(segments), "SUCCESS")]} \cup
        {[rc |-> e, reads |-> done(j, e)] :
            e \in TransferErrors,
            j \in {k \in 1..Len(segments) : segments[k].size > 0}}

\* The device address whose byte a successful read stored at index idx.
SegmentAddress(segments, idx) ==
    IF idx < segments[1].size
        THEN segments[1].address + idx
        ELSE segments[2].address + (idx - segments[1].size)

RECURSIVE SegmentsSize(_)
SegmentsSize(segments) ==
    IF segments = <<>> THEN 0
    ELSE Head(segments).size + SegmentsSize(Tail(segments))

\* One call of read_ringbuffer: the assertions, the calls of read_memory
\* and the ranges they stored at data, the second behind the first.
ReadRingbufferCall ==
    /\ qpc = "call"
    /\ LET plan == ReadRingbuffer(qreq.address, qreq.size, qreq.begin, qreq.end)
       IN  IF ~plan.assert /\ ~qreq.ndebug
              THEN /\ qpc' = "abort"
                   /\ UNCHANGED <<qstatus, qreads, qdata>>
              ELSE \E o \in SegmentOutcomes(plan.segments) :
                      /\ qpc' = "done"
                      /\ qstatus' = o.rc
                      /\ qreads' = o.reads
                      /\ qdata' = [k \in {j \in 1..Len(o.reads) : o.reads[j].rc = "SUCCESS"}
                                      |-> plan.segments[k]]
    /\ UNCHANGED qreq

\* The variables of read_ringbuffer in a specification that does not use
\* them.
ReadRingbufferUnused ==
    /\ qreq = <<>>
    /\ qpc = "done"
    /\ qstatus = "NONE"
    /\ qreads = <<>>
    /\ qdata = <<>>


-----------------------------------------------------------------------------
(* Family A: oceanic_atom2_read_dives.  Unsigned values that wrapped below *)
(* zero are held as -1.  A failed assertion ends the call in "abort" when  *)
(* assertions are compiled in; an access outside an array ends it in       *)
(* "undefined", which stands for every behaviour.                          *)

\* The local variables of read_dives before the call.
AtomInitialLocal ==
    [logbook_first |-> 0, logbook_last |-> 0, logbook_count |-> 0,
     logbook_page_offset |-> 0, logbook_page_first |-> 0,
     logbook_page_last |-> 0, logbook_page_len |-> 0, current |-> 0, i |-> 0]

AtomReturn(s) == arc' = s /\ apc' = "done"

AtomAbort == apc' = "abort" /\ UNCHANGED arc

AtomUndefined == apc' = "undefined" /\ UNCHANGED arc

\* The test against the sentinel of the other ring.
LogbookEmptyProfileSentinel(first, last) ==
    first = RB_PROFILE_EMPTY /\ last = RB_PROFILE_EMPTY

\* The test for the empty logbook: both pointers equal the sentinel.
LogbookEmpty(first, last) == first = RB_LOGBOOK_EMPTY /\ last = RB_LOGBOOK_EMPTY

\* The pointers block, the test for the empty logbook, and the number and
\* the page range of the logbook entries.
ReadDivesPointers ==
    /\ apc = "idle"
    /\ \E o \in SegmentOutcomes(<<[address |-> POINTERS_ADDRESS,
                                   size |-> OCEANIC_ATOM2_PACKET_SIZE]>>) :
          /\ areads' = areads \o o.reads
          /\ LET pointers == [j \in 0..(OCEANIC_ATOM2_PACKET_SIZE - 1) |->
                                 AtomByte(amem, POINTERS_ADDRESS + j)]
                 first == PT_LOGBOOK_FIRST(pointers)
                 last == PT_LOGBOOK_LAST(pointers)
                 dist == RB_LOGBOOK_DISTANCE(first, last)
                 page_first == (first \div OCEANIC_ATOM2_PACKET_SIZE) * OCEANIC_ATOM2_PACKET_SIZE
                 page_last == (last \div OCEANIC_ATOM2_PACKET_SIZE) * OCEANIC_ATOM2_PACKET_SIZE
                 page_dist == RB_LOGBOOK_DISTANCE(page_first, page_last)
             IN  IF o.rc # "SUCCESS"
                    THEN AtomReturn(o.rc) /\ UNCHANGED alocal
                 ELSE IF LogbookEmpty(first, last)
                    THEN AtomReturn("SUCCESS") /\ UNCHANGED alocal
                 ELSE /\ alocal' = [alocal EXCEPT
                            !.logbook_first = first,
                            !.logbook_last = last,
                            !.logbook_count =
                                IF dist < 0 THEN -1
                                ELSE dist \div (OCEANIC_ATOM2_PACKET_SIZE \div 2) + 1,
                            !.logbook_page_offset = first % OCEANIC_ATOM2_PACKET_SIZE,
                            !.logbook_page_first = page_first,
                            !.logbook_page_last = page_last,
                            !.logbook_page_len =
                                IF page_dist < 0 THEN -1
                                ELSE page_dist + OCEANIC_ATOM2_PACKET_SIZE]
                      /\ apc' = "logbook"
                      /\ UNCHANGED arc
    /\ UNCHANGED <<amem, acallback, astop, ndebug, logbooks, acalls>>

\* The read of the logbook pages into the linear array logbooks, and the
\* position of the newest entry in it.
ReadDivesLogbook ==
    /\ apc = "logbook"
    /\ LET size == alocal.logbook_page_len
           plan == ReadRingbuffer(alocal.logbook_page_first, size,
                                  RB_LOGBOOK_BEGIN, RB_LOGBOOK_END)
           asserted == size >= 0 /\ plan.assert
           overflow == size < 0 \/ size > RB_LOGBOOK_END - RB_LOGBOOK_BEGIN
       IN  IF ~asserted /\ ~ndebug
              THEN AtomAbort /\ UNCHANGED <<alocal, logbooks, areads>>
           ELSE IF overflow
              THEN AtomUndefined /\ UNCHANGED <<alocal, logbooks, areads>>
           ELSE \E o \in SegmentOutcomes(plan.segments) :
                  /\ areads' = areads \o o.reads
                  /\ IF o.rc # "SUCCESS"
                        THEN AtomReturn(o.rc) /\ UNCHANGED <<alocal, logbooks>>
                        ELSE /\ logbooks' = plan.segments
                             /\ alocal' = [alocal EXCEPT
                                   !.i = 0,
                                   !.current =
                                       IF alocal.logbook_count < 0 THEN -1
                                       ELSE alocal.logbook_page_offset
                                              + (alocal.logbook_count - 1)
                                                  * (OCEANIC_ATOM2_PACKET_SIZE \div 2)]
                             /\ apc' = "entry"
                             /\ UNCHANGED arc
    /\ UNCHANGED <<amem, acallback, astop, ndebug, acalls>>

\* A byte of the array logbooks: what the read stored, 0 where nothing was
\* stored.
LogbooksByte(idx) ==
    IF idx < SegmentsSize(logbooks)
        THEN AtomByte(amem, SegmentAddress(logbooks, idx))
        ELSE 0

\* The callback's answer to its n-th invocation.
CallbackAnswer(n) == n # astop

\* What eight bytes read past the end of the logbooks array can hold: the
\* array is a local of read_dives and the bytes behind it are whatever the
\* stack holds. Three values stand for them: all zero, all ones, and an
\* entry whose two profile pointers are the first packet of the profile
\* ring.
IndeterminateEntries ==
    { [j \in 0..7 |-> 0],
      [j \in 0..7 |-> 255],
      [j \in 0..7 |-> CASE j = 5 -> 165 [] j = 6 -> 80 [] j = 7 -> 10 [] OTHER -> 0] }

\* The values the eight bytes at logbooks + cur can have.
EntryValues(cur) ==
    IF cur >= 0 /\ cur + 8 <= RB_LOGBOOK_END - RB_LOGBOOK_BEGIN
        THEN { [j \in 0..7 |-> LogbooksByte(cur + j)] }
        ELSE IndeterminateEntries

\* if (callback) callback (...): the invocation is added to the
\* invocations so far; when the invocation is left open, they stay as they
\* are or this one is added.
RecordCall(cb, exact, call) ==
    IF exact
        THEN acalls' = (IF cb = "fn" THEN Append(acalls, call) ELSE acalls)
        ELSE acalls' \in {acalls, Append(acalls, call)}

\* One pass of the loop over the logbook entries: the profile pointers of
\* the current entry, the read of its profile, the callback, whose answer
\* is not looked at, and the step to the next older entry. cb is the
\* callback argument and exact how an invocation shows in the invocations
\* so far.
ReadDivesEntryBody(cb, exact) ==
    \E entry \in EntryValues(alocal.current) :
       LET cur == alocal.current
           inside == cur >= 0
           profile_first == PT_PROFILE_FIRST(entry) * OCEANIC_ATOM2_PACKET_SIZE
           profile_last == PT_PROFILE_LAST(entry) * OCEANIC_ATOM2_PACKET_SIZE
           dist == ATOM2_RB_PROFILE_DISTANCE(profile_first, profile_last)
           profile_len == IF dist < 0 THEN -1 ELSE dist + OCEANIC_ATOM2_PACKET_SIZE
           plan == ReadRingbuffer(profile_first, profile_len,
                                  RB_PROFILE_BEGIN, RB_PROFILE_END)
           asserted == profile_len >= 0 /\ plan.assert
           overflow == profile_len < 0
                          \/ profile_len > RB_PROFILE_END - RB_PROFILE_BEGIN
           call == [entry |-> entry,
                    current |-> cur,
                    profile_first |-> profile_first,
                    profile_last |-> profile_last,
                    size |-> profile_len + 8,
                    segments |-> plan.segments,
                    ret |-> CallbackAnswer(Len(acalls) + 1),
                    nreads |-> Len(areads')]
       IN  IF ~inside
              THEN AtomUndefined /\ UNCHANGED <<alocal, areads, acalls>>
           ELSE IF ~asserted /\ ~ndebug
              THEN AtomAbort /\ UNCHANGED <<alocal, areads, acalls>>
           ELSE IF overflow
              THEN AtomUndefined /\ UNCHANGED <<alocal, areads, acalls>>
           ELSE \E o \in SegmentOutcomes(plan.segments) :
                  /\ areads' = areads \o o.reads
                  /\ IF o.rc # "SUCCESS"
                        THEN AtomReturn(o.rc) /\ UNCHANGED <<alocal, acalls>>
                        ELSE /\ RecordCall(cb, exact, call)
                             /\ alocal' = [alocal EXCEPT
                                   !.current = cur - (OCEANIC_ATOM2_PACKET_SIZE \div 2),
                                   !.i = @ + 1]
                             /\ UNCHANGED <<apc, arc>>

ReadDivesEntry ==
    /\ apc = "entry"
    /\ alocal.logbook_count < 0 \/ alocal.i < alocal.logbook_count
    /\ ReadDivesEntryBody(acallback, TRUE)
    /\ UNCHANGED <<amem, acallback, astop, ndebug, logbooks>>

\* The end of the loop: return OCEANIC_SUCCESS.
ReadDivesReturn ==
    /\ apc = "entry"
    /\ alocal.logbook_count >= 0
    /\ alocal.i >= alocal.logbook_count
    /\ AtomReturn("SUCCESS")
    /\ UNCHANGED <<amem, acallback, astop, ndebug, alocal, logbooks, areads, acalls>>

\* The Family-A variables in a specification that does not use them.
ReadDivesIdle ==
    /\ apc = "idle"
    /\ arc = "NONE"
    /\ alocal = AtomInitialLocal
    /\ logbooks = <<>>
    /\ areads = <<>>
    /\ acalls = <<>>

ReadDivesUnused ==
    /\ amem = <<>>
    /\ acallback = "null"
    /\ astop = 0
    /\ ndebug = FALSE
    /\ ReadDivesIdle

-----------------------------------------------------------------------------
(* The record parser: uwatec_memomouse_parser_samples_foreach.             *)
(* A record is given by its size, its model byte (data[3]) and the pattern *)
(* of its other bytes.                                                     *)

\* A byte of the record by its pattern: all bits clear, all bits set, or
\* bytes that differ from one offset to the next.
PatternByte(pattern, a) ==
    CASE pattern = "zero" -> 0
      [] pattern = "ones" -> 255
      [] OTHER -> (a * 37 + 5) % 256

\* data[a]; indeterminate (-1) at and beyond the size of the record.
RecordByte(r, a) ==
    IF a >= r.size THEN -1
    ELSE IF a = 3 THEN r.model
    ELSE PatternByte(r.pattern, a)

\* array_uint16_be of the bytes hi, lo.
array_uint16_be(hi, lo) == hi * 256 + lo

\* (model & 0xF0) == 0xF0 and (model & 0xF0) == 0xA0.
is_nitrox(model) == (model \div 16) * 16 = 240
is_oxygen(model) == (model \div 16) * 16 = 160

\* header = 22, + 2 for nitrox, + 3 for oxygen.
HeaderSize(model) ==
    22 + (IF is_nitrox(model) THEN 2 ELSE 0) + (IF is_oxygen(model) THEN 3 ELSE 0)

\* (value & 0xFFC0) >> 6 and value & 0x3F.
SampleDepth(value) == value \div 64
SampleWarnings(value) == value % 64

\* The event type of warning bit i.
EventType(i) ==
    CASE i = 0 -> "DECOSTOP"
      [] i = 1 -> "RBT"
      [] i = 2 -> "ASCENT"
      [] i = 3 -> "CEILING"
      [] i = 4 -> "WORKLOAD"
      [] OTHER -> "TRANSMITTER"

\* The loop over the six warning bits from bit i on: one EVENT sample for
\* each bit that is set.
RECURSIVE EventSamples(_, _)
EventSamples(warnings, i) ==
    IF i >= 6 THEN <<>>
    ELSE (IF (warnings \div (2 ^ i)) % 2 = 1
             THEN <<[type |-> "EVENT", event |-> EventType(i), bit |-> i]>>
             ELSE <<>>)
         \o EventSamples(warnings, i + 1)

\* if (time % 60 == 0): the step carries the vendor bytes.
VendorDueEveryStep(time) == TRUE
VendorDue(time) == time % 60 = 0

\* time += 20.
NextTimeDoubled(time) == time + time
NextTime(time) == time + 20

\* The samples the callback gets, none when it is null.
Deliver(seq) == IF pcallback = "fn" THEN psamples \o seq ELSE psamples

SamplesReturn(s) == ppc' = "done" /\ pstatus' = s

\* The entry: the size test, the model byte, the header size and the
\* start values of time and offset.
SamplesEnter ==
    /\ ppc = "idle"
    /\ IF precord.size < 18
          THEN /\ SamplesReturn("DATAFORMAT")
               /\ UNCHANGED <<plocal, phigh>>
          ELSE /\ ppc' = "loop"
               /\ phigh' = 3
               /\ plocal' = [time |-> 20,
                             offset |-> HeaderSize(RecordByte(precord, 3)) + 18]
               /\ UNCHANGED pstatus
    /\ UNCHANGED <<precord, pcallback, psamples>>

\* One pass of the loop: the 16-bit word, the TIME and the DEPTH sample,
\* the EVENT samples, and at every third step the vendor bytes and the
\* VENDOR sample, or the return when a vendor byte is missing.
SamplesStep ==
    /\ ppc = "loop"
    /\ plocal.offset + 2 <= precord.size
    /\ LET model == RecordByte(precord, 3)
           value == array_uint16_be(RecordByte(precord, plocal.offset),
                                    RecordByte(precord, plocal.offset + 1))
           offset1 == plocal.offset + 2
           word == <<[type |-> "TIME", time |-> plocal.time],
                     [type |-> "DEPTH", depth |-> <<SampleDepth(value) * 10, 64>>]>>
                   \o EventSamples(SampleWarnings(value), 0)
           vsize == IF is_oxygen(model) THEN 2 ELSE 1
           short == offset1 + 1 > precord.size
                       \/ (is_oxygen(model) /\ offset1 + 2 > precord.size)
           vendor == [type |-> "VENDOR", size |-> vsize, offset |-> offset1]
       IN  /\ phigh' = Max(phigh, plocal.offset + 1)
           /\ IF VendorDue(plocal.time) /\ short
                 THEN /\ psamples' = Deliver(word)
                      /\ SamplesReturn("DATAFORMAT")
                      /\ UNCHANGED plocal
                 ELSE /\ psamples' = Deliver(IF VendorDue(plocal.time)
                                                THEN Append(word, vendor)
                                                ELSE word)
                      /\ plocal' = [time |-> NextTime(plocal.time),
                                    offset |-> IF VendorDue(plocal.time)
                                                  THEN offset1 + vsize
                                                  ELSE offset1]
                      /\ UNCHANGED <<ppc, pstatus>>
    /\ UNCHANGED <<precord, pcallback>>

\* The end of the loop: fewer than two bytes are left.
SamplesEnd ==
    /\ ppc = "loop"
    /\ plocal.offset + 2 > precord.size
    /\ SamplesReturn("SUCCESS")
    /\ UNCHANGED <<precord, pcallback, plocal, psamples, phigh>>

\* The variables of the parser before the call.
SamplesIdle ==
    /\ ppc = "idle"
    /\ pstatus = "NONE"
    /\ plocal = [time |-> 0, offset |-> 0]
    /\ psamples = <<>>
    /\ phigh = -1

\* The parser's variables in a specification that does not use them.
SamplesUnused ==
    /\ precord = <<>>
    /\ pcallback = "null"
    /\ SamplesIdle

-----------------------------------------------------------------------------
(* The record parser: uwatec_memomouse_parser_get_datetime.                *)

\* Integers beyond the range of the model checker are held as two limbs:
\* the value is hi * 2^16 + lo with lo in 0..2^16-1, and hi takes the sign.
Limb == 2 ^ 16
Wide(hi, lo) == [hi |-> hi, lo |-> lo]
WideSub(a, b) ==
    IF a.lo >= b.lo THEN Wide(a.hi - b.hi, a.lo - b.lo)
                    ELSE Wide(a.hi - b.hi - 1, a.lo - b.lo + Limb)
WideHalf(a) == Wide(a.hi \div 2, ((a.hi % 2) * Limb + a.lo) \div 2)
WideLeq(a, b) == a.hi < b.hi \/ (a.hi = b.hi /\ a.lo <= b.lo)

\* The value of a as an unsigned int, and as a signed 32-bit integer.
Unsigned32(a) == Wide(a.hi % Limb, a.lo)
Signed32(a) ==
    LET m == Unsigned32(a)
    IN  IF m.hi >= Limb \div 2 THEN Wide(m.hi - Limb, m.lo) ELSE m

\* array_uint32_le of the bytes b0 (lowest) to b3.
array_uint32_le(b0, b1, b2, b3) == Wide(b2 + 256 * b3, b0 + 256 * b1)

\* A byte of the record: the four bytes from offset 11 on hold stamp, lowest
\* byte first; the other bytes are zero.
StampedByte(r, a) ==
    CASE a = 11 -> r.stamp.lo % 256
      [] a = 12 -> r.stamp.lo \div 256
      [] a = 13 -> r.stamp.hi % 256
      [] a = 14 -> r.stamp.hi \div 256
      [] OTHER -> 0

\* parser->devtime - timestamp: both are unsigned int, and so is the
\* difference.
UnsignedDifference(devtime, timestamp) == Unsigned32(WideSub(devtime, timestamp))

\* parser->systime - (...) / 2: the division is unsigned; the subtraction is
\* done in dc_ticks_t when that type is wider than unsigned int, and in
\* unsigned int, converted back to dc_ticks_t, when it is not.
DatetimeTicksValue(systime, devtime, timestamp, wide) ==
    LET half == WideHalf(UnsignedDifference(devtime, timestamp))
    IN  IF wide THEN WideSub(systime, half) ELSE Signed32(WideSub(systime, half))

DatetimeReturn(s) == dpc' = "done" /\ dstatus' = s

\* The entry: if (abstract->size < 11 + 4) return DC_STATUS_DATAFORMAT.
DatetimeEnter ==
    /\ dpc = "call"
    /\ IF dreq.record.size < 11 + 4
          THEN DatetimeReturn("DATAFORMAT")
          ELSE dpc' = "ticks" /\ UNCHANGED dstatus
    /\ UNCHANGED <<dreq, dticks>>

\* The timestamp of the record and the ticks.
DatetimeTicks ==
    /\ dpc = "ticks"
    /\ LET timestamp == array_uint32_le(StampedByte(dreq.record, 11),
                                        StampedByte(dreq.record, 12),
                                        StampedByte(dreq.record, 13),
                                        StampedByte(dreq.record, 14))
       IN  dticks' = <<DatetimeTicksValue(dreq.systime, dreq.devtime, timestamp,
                                          dreq.wide)>>
    /\ dpc' = "localtime"
    /\ UNCHANGED <<dreq, dstatus>>

\* if (!dc_datetime_localtime (datetime, ticks)) return DC_STATUS_DATAFORMAT:
\* the conversion to local time succeeds or fails.
DatetimeLocaltime ==
    /\ dpc = "localtime"
    /\ \E ok \in BOOLEAN :
          DatetimeReturn(IF ok THEN "SUCCESS" ELSE "DATAFORMAT")
    /\ UNCHANGED <<dreq, dticks>>

\* The variables of get_datetime in a specification that does not use them.
DatetimeUnused ==
    /\ dreq = <<>>
    /\ dpc = "done"
    /\ dstatus = "NONE"
    /\ dticks = <<>>

-----------------------------------------------------------------------------
(* Family B: the runs.                                                     *)

StaleFingerprint == [j \in 1..sizeof_fingerprint |-> 255]

\* The variables of foreach before the call.
ForeachIdle ==
    /\ pc = "idle"
    /\ rc = "NONE"
    /\ local = InitialLocal
    /\ data = <<>>
    /\ heap = "none"
    /\ wrange = [lo |-> BufferSize, hi |-> -1]
    /\ cmds = <<>>
    /\ dives = <<>>
    /\ progress = [current |-> 0, maximum |-> 0]
    /\ emitted = <<>>

\* The Family-B variables in a specification that does not use them.
ForeachUnused ==
    /\ mem = <<>>
    /\ version0 = 0
    /\ fingerprint = <<>>
    /\ fpcall = NoFpCall
    /\ callback = "null"
    /\ ForeachIdle

\* The variables of transfer in a specification that does not step it.
TransferUnused ==
    /\ family = "B"
    /\ handshake = FALSE
    /\ packetfn = "set"
    /\ tpc = "call"
    /\ nretries = 0
    /\ prc = "NONE"
    /\ trc = "NONE"
    /\ answer = <<>>
    /\ tlog = <<>>

\* The session after set_fingerprint (NULL, 0): the one call of the run is
\* used up.
FpCallEmpty == [size |-> 0, data |-> <<>>, rc |-> "SUCCESS"]

MidOffset == FP_OFFSET + 6 + sizeof_fingerprint + 16

\* The runs start from: a sound chain at every end offset, in both models,
\* with and without a callback, with the default or a stale fingerprint; a
\* chain with one word replaced; a chain with one self-linked dive; a chain
\* with one dive of zero bytes.
InitForeach ==
    /\ TransferUnused
    /\ ReadDivesUnused
    /\ SamplesUnused
    /\ DeviceReadUnused
    /\ ReadRingbufferUnused
    /\ DatetimeUnused
    /\ \E endoff \in EndOffsets, sizes \in ChainSizes :
       \E zero \in 0..Len(sizes),
          corrupt \in Corruptions(rb_profile_begin + endoff, sizes),
          model \in {HELO2, 14},
          fp \in {ZeroFingerprint, StaleFingerprint},
          cb \in {"fn", "null"},
          call \in {NoFpCall, FpCallEmpty} :
            LET selflink == corrupt \in SelfLinks(rb_profile_begin + endoff, sizes)
                broken == corrupt # NoCorruption /\ ~selflink
                sound == corrupt = NoCorruption /\ zero = 0
                plain == model = 14 /\ fp = ZeroFingerprint /\ cb = "fn"
            IN  /\ broken => (zero = 0 /\ plain /\ call = FpCallEmpty)
                /\ selflink => (zero = 0 /\ model = 14 /\ fp = ZeroFingerprint
                                  /\ endoff = MidOffset)
                /\ zero # 0 => (corrupt = NoCorruption /\ plain /\ endoff = MidOffset)
                /\ model = HELO2 => (sound /\ cb = "fn" /\ fp = ZeroFingerprint)
                /\ fp = StaleFingerprint =>
                      (sound /\ cb = "fn" /\ \A k \in 1..Len(sizes) : sizes[k] > 6)
                /\ cb = "null" => call = FpCallEmpty
                /\ (cb = "fn" /\ ~broken) => call = NoFpCall
                /\ mem = Image(endoff, sizes, zero, corrupt)
                /\ version0 = model
                /\ fingerprint = fp
                /\ callback = cb
                /\ fpcall = call
    /\ ForeachIdle

NextForeach ==
    \/ SetFingerprint /\ UNCHANGED <<tvars, avars, pvars, rvars, qvars, dvars>>
    \/ ForeachVersion /\ UNCHANGED <<tvars, avars, pvars, rvars, qvars, dvars>>
    \/ ForeachSerial /\ UNCHANGED <<tvars, avars, pvars, rvars, qvars, dvars>>
    \/ ForeachHeader /\ UNCHANGED <<tvars, avars, pvars, rvars, qvars, dvars>>
    \/ ForeachLoop /\ UNCHANGED <<tvars, avars, pvars, rvars, qvars, dvars>>
    \/ ForeachPacket /\ UNCHANGED <<tvars, avars, pvars, rvars, qvars, dvars>>
    \/ ForeachDive /\ UNCHANGED <<tvars, avars, pvars, rvars, qvars, dvars>>

SpecForeach == InitForeach /\ [][NextForeach]_vars

\* The runs in which set_fingerprint was called before: the call of foreach
\* is all that is left to do. The caller makes the call and the call goes
\* on to its next statement: every transfer returns, no callback blocks.
InitForeachCalled == InitForeach /\ fpcall = FpCallEmpty

NextForeachCalled ==
    \/ ForeachVersion /\ UNCHANGED <<tvars, avars, pvars, rvars, qvars, dvars>>
    \/ ForeachSerial /\ UNCHANGED <<tvars, avars, pvars, rvars, qvars, dvars>>
    \/ ForeachHeader /\ UNCHANGED <<tvars, avars, pvars, rvars, qvars, dvars>>
    \/ ForeachLoop /\ UNCHANGED <<tvars, avars, pvars, rvars, qvars, dvars>>
    \/ ForeachPacket /\ UNCHANGED <<tvars, avars, pvars, rvars, qvars, dvars>>
    \/ ForeachDive /\ UNCHANGED <<tvars, avars, pvars, rvars, qvars, dvars>>

SpecForeachFair ==
    InitForeachCalled /\ [][NextForeachCalled]_vars /\ WF_vars(NextForeachCalled)

-----------------------------------------------------------------------------
InitTransfer ==
    /\ family \in {"A", "B"}
    /\ handshake \in BOOLEAN
    /\ packetfn \in {"set", "null"}
    /\ (family = "A" => packetfn = "set")
    /\ (family = "B" => handshake = FALSE)
    /\ tpc = "call"
    /\ nretries = 0
    /\ prc = "NONE"
    /\ trc = "NONE"
    /\ answer = <<>>
    /\ tlog = <<>>
    /\ ForeachUnused
    /\ ReadDivesUnused
    /\ SamplesUnused
    /\ DeviceReadUnused
    /\ ReadRingbufferUnused
    /\ DatetimeUnused

NextTransfer ==
    \/ AtomTransferEnter /\ UNCHANGED <<bvars, avars, pvars, rvars, qvars, dvars>>
    \/ AtomWrite /\ UNCHANGED <<bvars, avars, pvars, rvars, qvars, dvars>>
    \/ AtomDrain /\ UNCHANGED <<bvars, avars, pvars, rvars, qvars, dvars>>
    \/ AtomRead /\ UNCHANGED <<bvars, avars, pvars, rvars, qvars, dvars>>
    \/ AtomVerify /\ UNCHANGED <<bvars, avars, pvars, rvars, qvars, dvars>>
    \/ Common2TransferEnter /\ UNCHANGED <<bvars, avars, pvars, rvars, qvars, dvars>>
    \/ PacketWrite /\ UNCHANGED <<bvars, avars, pvars, rvars, qvars, dvars>>
    \/ PacketDrain /\ UNCHANGED <<bvars, avars, pvars, rvars, qvars, dvars>>
    \/ PacketRead /\ UNCHANGED <<bvars, avars, pvars, rvars, qvars, dvars>>
    \/ PacketVerify /\ UNCHANGED <<bvars, avars, pvars, rvars, qvars, dvars>>
    \/ Common2TransferLoop /\ UNCHANGED <<bvars, avars, pvars, rvars, qvars, dvars>>

SpecTransfer == InitTransfer /\ [][NextTransfer]_vars

-----------------------------------------------------------------------------
(* Family A: the runs.                                                     *)

\* Values of the logbook pointers: the sentinel, the first two and the last
\* entry of the ring, and its end.
LogbookPointers ==
    {RB_LOGBOOK_EMPTY, RB_LOGBOOK_BEGIN, RB_LOGBOOK_BEGIN + 8,
     RB_LOGBOOK_END - 8, RB_LOGBOOK_END}

\* Packet indexes an entry can hold: 0, the sentinel, the first two and the
\* last packet of the ring, and its end.
ProfileIndexes ==
    {0,
     RB_PROFILE_EMPTY \div OCEANIC_ATOM2_PACKET_SIZE,
     RB_PROFILE_BEGIN \div OCEANIC_ATOM2_PACKET_SIZE,
     RB_PROFILE_BEGIN \div OCEANIC_ATOM2_PACKET_SIZE + 1,
     RB_PROFILE_END \div OCEANIC_ATOM2_PACKET_SIZE - 1,
     RB_PROFILE_END \div OCEANIC_ATOM2_PACKET_SIZE}

\* The runs start from every pair of logbook pointers with the entries as
\* DefaultProfile fills them, and from logbooks of one or two entries whose
\* newest entry holds any pair of packet indexes.
InitReadDives ==
    /\ TransferUnused
    /\ ForeachUnused
    /\ SamplesUnused
    /\ DeviceReadUnused
    /\ ReadRingbufferUnused
    /\ DatetimeUnused
    /\ acallback \in {"fn", "null"}
    /\ astop \in 0..MaxStop
    /\ (acallback = "null" => astop = 0)
    /\ ndebug \in BOOLEAN
    /\ \E first \in LogbookPointers, last \in LogbookPointers,
          pf \in ProfileIndexes, pl \in ProfileIndexes, chosen \in BOOLEAN :
          LET short == first = RB_LOGBOOK_BEGIN
                          /\ last \in {RB_LOGBOOK_BEGIN, RB_LOGBOOK_BEGIN + 8}
          IN  /\ chosen => short
              /\ ~chosen => (pf = 0 /\ pl = 0)
              /\ astop # 0 => short
              /\ amem = [logbook_first |-> first,
                         logbook_last |-> last,
                         entry |-> IF chosen THEN last ELSE 0,
                         profile_first |-> pf,
                         profile_last |-> pl]
    /\ ReadDivesIdle

NextReadDives ==
    \/ ReadDivesPointers /\ UNCHANGED <<tvars, bvars, pvars, rvars, qvars, dvars>>
    \/ ReadDivesLogbook /\ UNCHANGED <<tvars, bvars, pvars, rvars, qvars, dvars>>
    \/ ReadDivesEntry /\ UNCHANGED <<tvars, bvars, pvars, rvars, qvars, dvars>>
    \/ ReadDivesReturn /\ UNCHANGED <<tvars, bvars, pvars, rvars, qvars, dvars>>

SpecReadDives == InitReadDives /\ [][NextReadDives]_vars

-----------------------------------------------------------------------------
(* Both extractors: a run is one Family-B foreach or one Family-A          *)
(* read_dives.                                                             *)

InitExtractors == InitForeach \/ InitReadDives

NextExtractors ==
    \/ DOMAIN mem # {} /\ NextForeach
    \/ DOMAIN amem # {} /\ NextReadDives

SpecExtractors == InitExtractors /\ [][NextExtractors]_vars

-----------------------------------------------------------------------------
(* The record parser: the runs.                                            *)

\* Model bytes: an air model, an oxygen model and a nitrox model.
RecordModels == {16, 160, 240}

RecordPatterns == {"zero", "ones", "mixed"}

\* The runs start from every record of at most MaxRecord bytes.
InitSamples ==
    /\ TransferUnused
    /\ ForeachUnused
    /\ ReadDivesUnused
    /\ DeviceReadUnused
    /\ ReadRingbufferUnused
    /\ DatetimeUnused
    /\ precord \in [size : 0..MaxRecord, model : RecordModels, pattern : RecordPatterns]
    /\ pcallback \in {"fn", "null"}
    /\ SamplesIdle

NextSamples ==
    \/ SamplesEnter /\ UNCHANGED <<tvars, bvars, avars, rvars, qvars, dvars>>
    \/ SamplesStep /\ UNCHANGED <<tvars, bvars, avars, rvars, qvars, dvars>>
    \/ SamplesEnd /\ UNCHANGED <<tvars, bvars, avars, rvars, qvars, dvars>>

SpecSamples == InitSamples /\ [][NextSamples]_vars

-----------------------------------------------------------------------------
(* Family B device_read: the runs.                                         *)

\* The runs start from every call with a size of at most MaxRead bytes at
\* the begin of the profile ringbuffer or a few bytes into it.
InitDeviceRead ==
    /\ TransferUnused
    /\ ForeachUnused
    /\ ReadDivesUnused
    /\ SamplesUnused
    /\ ReadRingbufferUnused
    /\ DatetimeUnused
    /\ rreq \in [address : {rb_profile_begin, rb_profile_begin + 3}, size : 0..MaxRead]
    /\ rpc = "loop"
    /\ rstatus = "NONE"
    /\ rlocal = [nbytes |-> 0, address |-> rreq.address]
    /\ rcmds = <<>>
    /\ rdata = <<>>

NextDeviceRead ==
    \/ DeviceReadPackage /\ UNCHANGED <<tvars, bvars, avars, pvars, qvars, dvars>>
    \/ DeviceReadReturn /\ UNCHANGED <<tvars, bvars, avars, pvars, qvars, dvars>>

SpecDeviceRead == InitDeviceRead /\ [][NextDeviceRead]_vars

-----------------------------------------------------------------------------
(* Family A read_ringbuffer: the runs.                                     *)

\* The two rings read_dives reads from.
AtomRings ==
    {[begin |-> RB_LOGBOOK_BEGIN, end |-> RB_LOGBOOK_END],
     [begin |-> RB_PROFILE_BEGIN, end |-> RB_PROFILE_END]}

\* The runs start from every call on one of the two rings with an address
\* out of the first and the last packets of the ring and its end, and a
\* size of at most MaxPackets packets, of the whole ring, or of one packet
\* more: multiples of the packet size, as read_dives computes them.
InitReadRingbuffer ==
    /\ TransferUnused
    /\ ForeachUnused
    /\ ReadDivesUnused
    /\ SamplesUnused
    /\ DeviceReadUnused
    /\ DatetimeUnused
    /\ \E ring \in AtomRings, ndbg \in BOOLEAN :
       \E address \in {ring.begin, ring.begin + OCEANIC_ATOM2_PACKET_SIZE,
                       ring.end - 2 * OCEANIC_ATOM2_PACKET_SIZE,
                       ring.end - OCEANIC_ATOM2_PACKET_SIZE, ring.end},
          size \in {n * OCEANIC_ATOM2_PACKET_SIZE : n \in 0..MaxPackets}
                      \cup {ring.end - ring.begin,
                            ring.end - ring.begin + OCEANIC_ATOM2_PACKET_SIZE} :
          qreq = [address |-> address, size |-> size,
                  begin |-> ring.begin, end |-> ring.end, ndebug |-> ndbg]
    /\ qpc = "call"
    /\ qstatus = "NONE"
    /\ qreads = <<>>
    /\ qdata = <<>>

NextReadRingbuffer ==
    ReadRingbufferCall /\ UNCHANGED <<tvars, bvars, avars, pvars, rvars, dvars>>

SpecReadRingbuffer == InitReadRingbuffer /\ [][NextReadRingbuffer]_vars

-----------------------------------------------------------------------------
(* The record parser: the runs of get_datetime.                            *)

\* Sizes of the record: empty, one byte short of the timestamp and of its
\* end, just long enough, and longer.
DatetimeSizes == {0, 11, 14, 15, 16, MaxRecord}

\* Values of devtime and of the timestamp of the dive: the ends and the
\* middle of the range of an unsigned int, and small values.
TickValues ==
    {Wide(0, 0), Wide(0, 1), Wide(0, 2), Wide(0, 7),
     Wide(Limb \div 2 - 1, Limb - 1), Wide(Limb \div 2, 0),
     Wide(Limb - 1, Limb - 2), Wide(Limb - 1, Limb - 1)}

\* Values of systime: the epoch, a day after it, and 2001-09-09.
SystemTimes == {Wide(0, 0), Wide(1, 20864), Wide(15258, 51712)}

InitDatetime ==
    /\ TransferUnused
    /\ ForeachUnused
    /\ ReadDivesUnused
    /\ SamplesUnused
    /\ DeviceReadUnused
    /\ ReadRingbufferUnused
    /\ dreq \in [record : [size : DatetimeSizes, stamp : TickValues],
                 devtime : TickValues,
                 systime : SystemTimes,
                 wide : BOOLEAN]
    /\ dpc = "call"
    /\ dstatus = "NONE"
    /\ dticks = <<>>

NextDatetime ==
    \/ DatetimeEnter /\ UNCHANGED <<tvars, bvars, avars, pvars, rvars, qvars>>
    \/ DatetimeTicks /\ UNCHANGED <<tvars, bvars, avars, pvars, rvars, qvars>>
    \/ DatetimeLocaltime /\ UNCHANGED <<tvars, bvars, avars, pvars, rvars, qvars>>

SpecDatetime == InitDatetime /\ [][NextDatetime]_vars

-----------------------------------------------------------------------------
(* Properties of transfer.                                                 *)

\* The attempts made so far: one per write of the command.
Attempts == Cardinality({i \in 1..Len(tlog) : tlog[i].step = "write"})

\* The outcome of attempt k: the result of its last transport step.
AttemptResult(k) ==
    LET idx == {i \in 1..Len(tlog) : tlog[i].att = k}
        last == CHOOSE i \in idx : \A j \in idx : j <= i
    IN  tlog[last].res

StatusOf(res) ==
    CASE res = "ok" -> "SUCCESS"
      [] res = "timeout" -> "TIMEOUT"
      [] res = "protocol" -> "PROTOCOL"
      [] res = "io" -> "IO"

\* C1: in either family a call of transfer attempts the command at most 3
\* times; no transport step follows a successful attempt; a timeout on the
\* first attempt and a valid response on the second give success after
\* exactly 2 attempts (1 retry); and when 3 attempts all failed with a
\* timeout or protocol error the call returns the error of the last one.
C1_TransferRetries ==
    /\ Attempts <= 3
    /\ \A i \in 1..Len(tlog) :
          (tlog[i].step = "verify" /\ tlog[i].res = "ok") => i = Len(tlog)
    /\ (tpc = "done" /\ Attempts >= 2
           /\ AttemptResult(1) = "timeout" /\ AttemptResult(2) = "ok")
          => (trc = "SUCCESS" /\ Attempts = 2 /\ nretries = 1)
    /\ (tpc = "done" /\ Attempts = 3
           /\ \A k \in 1..3 : AttemptResult(k) \in {"timeout", "protocol"})
          => trc = StatusOf(AttemptResult(3))

\* Reached: a call that timed out once and then succeeded, in each family's
\* way of counting (here Family B, whose counter is nretries).
C1_Witness ==
    /\ family = "B" /\ tpc = "done" /\ trc = "SUCCESS"
    /\ Attempts = 2 /\ AttemptResult(1) = "timeout" /\ nretries = 1

\* C2: in both families a full-length response that fails verification
\* while fewer than 2 retries have been used is followed by a new write of
\* the command, never by the return of the error.
C2_ProtocolErrorIsRetried ==
    \A i \in 1..Len(tlog) :
        (tlog[i].step = "verify" /\ tlog[i].res = "protocol" /\ tlog[i].att <= 2)
            => IF i = Len(tlog)
                  THEN tpc \in {"result", "write"}
                  ELSE tlog[i + 1].step = "write"

\* C3: in both families an I/O error of the write, the drain or the read is
\* the last transport step of the call, and the call returns the I/O error.
C3_IoErrorEndsTransfer ==
    \A i \in 1..Len(tlog) :
        tlog[i].res = "io"
            => /\ i = Len(tlog)
               /\ tpc \in {"result", "done"}
               /\ (tpc = "result" => prc = "IO")
               /\ (tpc = "done" => trc = "IO")

-----------------------------------------------------------------------------
(* Properties of the range checks.                                         *)

\* C4: no dive that carries a pointer outside its ringbuffer is handed to
\* the callback: in Family A every invocation has profile_first and
\* profile_last inside [RB_PROFILE_BEGIN, RB_PROFILE_END), in Family B every
\* dive handed over has prev and next inside
\* [rb_profile_begin, rb_profile_end).
C4_PointersRangeChecked ==
    /\ \A i \in 1..Len(acalls) :
          /\ acalls[i].profile_first >= RB_PROFILE_BEGIN
          /\ acalls[i].profile_first < RB_PROFILE_END
          /\ acalls[i].profile_last >= RB_PROFILE_BEGIN
          /\ acalls[i].profile_last < RB_PROFILE_END
    /\ \A i \in 1..Len(dives) :
          dives[i].outcome = "callback"
              => /\ dives[i].prev >= rb_profile_begin
                 /\ dives[i].prev < rb_profile_end
                 /\ dives[i].next >= rb_profile_begin
                 /\ dives[i].next < rb_profile_end

-----------------------------------------------------------------------------
(* Properties of the Family-B foreach.                                     *)

\* Positions in dives of the dives that were handed to the callback.
CallbackIndexes == {i \in 1..Len(dives) : dives[i].outcome = "callback"}

\* The callback has not asked to stop.
NeverStopped == \A i \in 1..Len(dives) : dives[i].ret

\* One of the header values last, end, begin lies outside the ringbuffer.
HeaderOutOfRange ==
    \E f \in {HeaderOf(mem).last, HeaderOf(mem).end, HeaderOf(mem).begin} :
        f < rb_profile_begin \/ f >= rb_profile_end

\* The device's count equals the length of its chain, the chain uses up the
\* bytes between begin and end, and every dive holds its fingerprint slice.
ChainOfWholeDives ==
    /\ ChainWhole(mem)
    /\ HeaderOf(mem).count = Len(Chain(mem))
    /\ \A k \in 1..Len(Chain(mem)) :
          /\ Chain(mem)[k].next # Chain(mem)[k].addr
          /\ Chain(mem)[k].size >= FP_OFFSET + 6 + sizeof_fingerprint

\* C5: when last, end or begin of the header lies outside
\* [rb_profile_begin, rb_profile_end), foreach never goes past the header:
\* it handles no dive, sends no read command other than those of the serial
\* number and the header, never allocates the scratch buffer, and, unless a
\* transfer failed before, returns DataFormatError right after the header
\* read.
C5_InvalidHeaderIsRejected ==
    HeaderOutOfRange =>
        /\ pc \in {"idle", "serial", "header", "done"}
        /\ dives = <<>>
        /\ heap = "none"
        /\ data = <<>>
        /\ \A i \in 1..Len(cmds) : cmds[i].address \in {layout_serial, HEADER_ADDRESS}
        /\ (pc = "done" /\ rc \notin TransferErrors)
              => (rc = "DATAFORMAT" /\ Len(cmds) = 2)

\* Reached: end == rb_profile_end in the header, DataFormatError returned
\* after the two reads, nothing allocated.
C5_Witness ==
    /\ HeaderOf(mem).end = rb_profile_end
    /\ pc = "done" /\ rc = "DATAFORMAT"
    /\ Len(cmds) = 2 /\ heap = "none" /\ dives = <<>>

\* C6 (as stated): for every two consecutive callbacks d_i, d_{i+1} of one
\* call, the next pointer of d_{i+1} is the ring address of d_i, also when
\* self-linked dives lie in the chain.
C6_NextIsPreviousCallback ==
    \A i, j \in CallbackIndexes :
        (i < j /\ ~\E k \in CallbackIndexes : i < k /\ k < j)
            => dives[j].next = dives[i].addr

\* C6 (amended): the next pointer of a dive handed to the callback is the
\* ring address of the dive the traversal handled immediately before it:
\* the dive of the previous callback when no dive was skipped in between,
\* the last skipped self-linked dive otherwise; and only self-linked dives
\* are skipped between two callbacks.
C6_NextIsPreviousHandled ==
    \A j \in CallbackIndexes :
        j > 1 => /\ dives[j].next = dives[j - 1].addr
                 /\ \/ dives[j - 1].outcome = "callback"
                    \/ /\ dives[j - 1].outcome = "skipped"
                       /\ dives[j - 1].next = dives[j - 1].addr

\* Reached: callback, skipped self-linked dive, callback; the third dive
\* points at the skipped one, not at the first.
C6_Witness ==
    /\ Len(dives) >= 3
    /\ dives[1].outcome = "callback"
    /\ dives[2].outcome = "skipped"
    /\ dives[3].outcome = "callback"
    /\ dives[3].next = dives[2].addr
    /\ dives[3].next # dives[1].addr

\* C7: a foreach that ran with the all-zero fingerprint and a callback that
\* never asked to stop, and returned success, has invoked the callback as
\* many times as the count field of the header says (here for a device whose
\* count is the length of its chain and whose dives all hold their
\* fingerprint slice).
C7_CallbacksEqualCount ==
    (/\ pc = "done" /\ rc = "SUCCESS"
     /\ fingerprint = ZeroFingerprint
     /\ callback = "fn"
     /\ NeverStopped
     /\ ChainOfWholeDives)
        => Cardinality(CallbackIndexes) = HeaderOf(mem).count

\* C8: with the session fingerprint, not all zero, equal to the slice of the
\* k-th newest dive of a whole chain without self-links (and to the slice
\* of no newer dive), a call
\* in which no transfer and no allocation failed and the callback never
\* asked to stop hands exactly the k-1 newer dives to the callback, newest
\* first, ends on the k-th dive without a callback for it, sends no read
\* command after the packets of the k-th dive, and returns success.
C8_StopsAtFingerprint ==
    \A k \in 1..Len(Chain(mem)) :
        (/\ ChainWhole(mem)
         /\ \A j \in 1..Len(Chain(mem)) : Chain(mem)[j].next # Chain(mem)[j].addr
         /\ callback = "fn"
         /\ fingerprint = SliceOf(mem, Chain(mem)[k].addr, version0)
         /\ fingerprint # ZeroFingerprint
         /\ \A j \in 1..(k - 1) :
               SliceOf(mem, Chain(mem)[j].addr, version0) # fingerprint
         /\ pc = "done"
         /\ rc \notin TransferErrors \cup {"NOMEMORY"}
         /\ NeverStopped)
            => /\ rc = "SUCCESS"
               /\ Len(dives) = k
               /\ \A j \in 1..(k - 1) :
                     /\ dives[j].outcome = "callback"
                     /\ dives[j].addr = Chain(mem)[j].addr
               /\ dives[k].outcome = "match"
               /\ dives[k].addr = Chain(mem)[k].addr
               /\ Len(cmds) = dives[k].ncmds

\* C9: after a successful set_fingerprint with size 0 or with all-zero
\* data, no foreach ends its traversal on a fingerprint comparison (here:
\* on the comparison of a slice whose bytes were all read from the device).
C9_ZeroFingerprintNeverMatches ==
    (fpcall.rc = "SUCCESS" /\ (fpcall.size = 0 \/ fpcall.data = ZeroFingerprint))
        => \A i \in 1..Len(dives) :
              dives[i].outcome = "match"
                  => \E j \in 1..sizeof_fingerprint : dives[i].fp[j] = -1

\* C10: a dive for which the callback returned false is the last dive the
\* call handles; the call has returned success, and no read command was
\* sent after the packets of that dive.
C10_StopOnCallbackFalse ==
    \A i \in 1..Len(dives) :
        (dives[i].outcome = "callback" /\ ~dives[i].ret)
            => /\ i = Len(dives)
               /\ pc = "done"
               /\ rc = "SUCCESS"
               /\ heap = "freed"
               /\ Len(cmds) = dives[i].ncmds

\* Reached: the callback stopped the call on the second dive while older
\* dives were still unread, after an incomplete dive had been skipped.
C10_Witness ==
    /\ Len(dives) = 2
    /\ dives[1].outcome = "skipped"
    /\ dives[2].outcome = "callback" /\ ~dives[2].ret
    /\ local.remaining > 0
    /\ pc = "done" /\ rc = "SUCCESS"

\* C12: in every step of a foreach call the scratch buffer is allocated only
\* by the header step and only when no block exists, it is freed only from
\* the allocated state and only by a step that returns, a freed block stays
\* freed, no return leaves the block allocated, and the buffer is written
\* only while the block is allocated.
C12_ScratchBufferLifetime ==
    [][/\ (heap' = "allocated" /\ heap # "allocated")
              => (heap = "none" /\ pc = "header")
       /\ (heap' = "freed" /\ heap # "freed")
              => (heap = "allocated" /\ pc' = "done")
       /\ heap = "freed" => (heap' = "freed" /\ data' = data)
       /\ pc' = "done" => heap' # "allocated"
       /\ data' # data => heap' = "allocated"]_vars

\* Reached: a packet read failed after a dive had been handled, and the call
\* returned the transfer's status with the block freed.
C12_Witness ==
    /\ pc = "done" /\ rc = "TIMEOUT"
    /\ heap = "freed"
    /\ Len(dives) >= 1

\* C13: the bytes handed to the callback for a dive are the bytes the device
\* holds at the size - 4 ring addresses that follow the dive's two pointers,
\* in ring order (wrapping from rb_profile_end to rb_profile_begin): no
\* byte of another dive, no byte from outside the ring, no byte that was
\* never stored.
C13_DiveBytesAreRingBytes ==
    \A i \in CallbackIndexes :
        dives[i].data = RingBytes(mem, RingFwd(dives[i].addr, 4), dives[i].size - 4)

\* Reached: a dive handed to the callback that straddles the wrap point, its
\* bytes fetched by a padded read that starts below rb_profile_begin.
C13_Witness ==
    \E i \in CallbackIndexes :
        /\ dives[i].addr + dives[i].size > rb_profile_end
        /\ dives[i].size > 4
        /\ \E j \in 1..dives[i].ncmds :
              /\ cmds[j].address > HEADER_ADDRESS
              /\ cmds[j].address < rb_profile_begin
              /\ cmds[j].count = SZ_MINIMUM

\* C16: in the progress events of a Family-B foreach call the current value
\* never decreases from one event to the next, and from the event that
\* follows the read of the header on, current is at most maximum.
C16_ProgressMonotonicAndBounded ==
    /\ \A i \in 1..(Len(emitted) - 1) : emitted[i].current <= emitted[i + 1].current
    /\ \A i \in 4..Len(emitted) : emitted[i].current <= emitted[i].maximum

\* A call that has read every byte of three dives: the last event has
\* current equal to maximum, and maximum was reduced at the header.
C16_Witness ==
    /\ pc = "done"
    /\ Len(dives) = MaxDives
    /\ Len(emitted) > 4
    /\ emitted[Len(emitted)].current = emitted[Len(emitted)].maximum
    /\ emitted[4].maximum < emitted[3].maximum
    /\ emitted[4].current < emitted[Len(emitted)].current

\* The dives handled so far use up every byte of the profile data and the
\* pass of the last one went on to the next dive: the call has left, or is
\* about to leave, the loop at while (remaining).
TraversalAtEnd ==
    /\ dives # <<>>
    /\ SumSizes(dives) = local.total
    /\ local.remaining = 0
    /\ dives[Len(dives)].outcome \in {"skipped", "nocallback"}
          \/ (dives[Len(dives)].outcome = "callback" /\ dives[Len(dives)].ret)

\* A dive whose next pointer is its own address.
SelfLinked(d) == d.next = d.addr

\* C19: a dive of the Family-B foreach whose next pointer equals current is
\* handled without a callback, and the dives without a self-link that come
\* after it have their fingerprint compared and their callback made as
\* ever; the pass that skips a dive does not return but goes back to the
\* head of the loop with the status DATAFORMAT latched; and a call that
\* skipped a dive and ran to the end of the traversal returned DATAFORMAT.
C19_SelfLinkSkippedAndLatched ==
    /\ [](/\ \A i \in 1..Len(dives) :
                /\ SelfLinked(dives[i]) <=> dives[i].outcome = "skipped"
                /\ (~SelfLinked(dives[i]) /\ callback = "fn")
                      => dives[i].outcome \in {"match", "callback"}
          /\ (/\ pc = "done"
              /\ TraversalAtEnd
              /\ \E i \in 1..Len(dives) : dives[i].outcome = "skipped")
                => rc = "DATAFORMAT")
    /\ [][(/\ Len(dives') = Len(dives) + 1
           /\ dives'[Len(dives')].outcome = "skipped")
             => /\ pc' = "loop"
                /\ rc' = "NONE"
                /\ heap' = "allocated"
                /\ local'.status = "DATAFORMAT"
                /\ local'.current = dives'[Len(dives')].prev]_vars

\* A call whose newest dive is self-linked: it was skipped, the two older
\* dives were handed to the callback, and the call, at the end of the
\* traversal, returned DATAFORMAT.
C19_Witness ==
    /\ pc = "done"
    /\ rc = "DATAFORMAT"
    /\ TraversalAtEnd
    /\ Len(dives) = MaxDives
    /\ dives[1].outcome = "skipped"
    /\ \A i \in 2..Len(dives) : dives[i].outcome = "callback" /\ dives[i].ret

\* C20: a Family-B foreach call that has skipped an incomplete dive does
\* not return success, whichever way it returns.
C20_LatchedErrorOnEveryExit ==
    (/\ pc = "done"
     /\ \E i \in 1..Len(dives) : dives[i].outcome = "skipped")
        => rc # "SUCCESS"

\* The packets of the current dive have all been read and the rest of the
\* pass has not run yet.
PacketsRead == pc = "packet" /\ local.nbytes >= local.size

\* The size bytes of the current dive as the device holds them, and the n
\* bytes before them in ring order.
CurrentDiveBytes == RingBytes(mem, local.current, local.size)
OlderDiveBytes(n) == RingBytes(mem, RingBack(local.current, n), n)

\* The n bytes of the scratch buffer from index base on.
BufferBytes(base, n) == [i \in 1..n |-> BufferByte(base + i - 1)]

\* C21 as stated: once the packets of the current dive are read, its size
\* bytes are at buffer[offset .. offset + size), offset being the write
\* cursor, and the available bytes of the older dive come right after them.
C21_DiveAtWriteCursor ==
    PacketsRead =>
        /\ BufferBytes(local.offset, local.size) = CurrentDiveBytes
        /\ BufferBytes(local.offset + local.size, local.nbytes - local.size)
              = OlderDiveBytes(local.nbytes - local.size)

\* C21, amended: once the packets of the current dive are read, the
\* available = nbytes - size bytes of the older dive are at
\* buffer[offset .. offset + available), offset being the write cursor, and
\* the size bytes of the current dive come right after them, at
\* buffer[offset + available .. offset + available + size).
C21_DiveAfterAvailable ==
    PacketsRead =>
        LET available == local.nbytes - local.size
        IN  /\ BufferBytes(local.offset, available) = OlderDiveBytes(available)
            /\ BufferBytes(local.offset + available, local.size) = CurrentDiveBytes

\* The packets of the second dive of a call are read, and bytes of the
\* third came with them.
C21_Witness ==
    /\ PacketsRead
    /\ Len(dives) = 1
    /\ local.nbytes > local.size
    /\ local.size > 4

\* The dives of a call whose pointers passed the tests of the pass.
HandledIndexes == 1..Len(dives)

\* C22 as stated: the prev/next pair of a dive is the last 4 bytes of its
\* size bytes, the 4 bytes that end at ring address previous, and the
\* callback receives the size - 4 bytes before them.
C22_PointersAtEndOfDive ==
    /\ \A i \in HandledIndexes :
          LET trailer == RingFwd(dives[i].addr, dives[i].size - 4)
          IN  /\ dives[i].prev = RingWord(mem, trailer)
              /\ dives[i].next = RingWord(mem, RingFwd(trailer, 2))
    /\ \A i \in CallbackIndexes :
          dives[i].data = RingBytes(mem, dives[i].addr, dives[i].size - 4)

\* C22, amended: the prev/next pair of a dive is the first 4 bytes of its
\* size bytes, the 4 bytes that start at ring address current, as
\* [prev_lo, prev_hi, next_lo, next_hi], and the callback receives the
\* size - 4 bytes after them.
C22_PointersAtStartOfDive ==
    /\ \A i \in HandledIndexes :
          /\ dives[i].prev = array_uint16_le(mem[dives[i].addr],
                                            mem[RingFwd(dives[i].addr, 1)])
          /\ dives[i].next = array_uint16_le(mem[RingFwd(dives[i].addr, 2)],
                                            mem[RingFwd(dives[i].addr, 3)])
    /\ \A i \in CallbackIndexes :
          dives[i].data = RingBytes(mem, RingFwd(dives[i].addr, 4), dives[i].size - 4)

\* Three dives handed to the callback, the second one read together with
\* the first and with pointers of two different values.
C22_Witness ==
    /\ Len(dives) = MaxDives
    /\ \A i \in 1..Len(dives) : dives[i].outcome = "callback"
    /\ dives[2].ncmds = dives[1].ncmds
    /\ dives[2].prev # dives[2].next
    /\ dives[2].size > 4

\* Positions in dives of the dives whose fingerprint slice was compared
\* with the session fingerprint.
ComparedIndexes == {i \in 1..Len(dives) : dives[i].outcome # "skipped"}

\* C25: the fingerprint slice of every dive that passed the size test and
\* was compared with the session fingerprint, the sizeof_fingerprint bytes
\* at fp_offset from the start of the dive, lies inside the size bytes of
\* that dive and inside the block of the scratch buffer.
C25_FingerprintSliceInsideDive ==
    \A i \in ComparedIndexes :
        /\ dives[i].size >= 4
        /\ FpOffset(version0) + sizeof_fingerprint <= dives[i].size
        /\ dives[i].p >= 0
        /\ dives[i].p + FpOffset(version0) + sizeof_fingerprint <= BufferSize

\* The bytes of profile data the packages of the call have read so far: the
\* sum of len over its packages, which is what the progress has advanced
\* since the header.
PacketBytes == progress.current - (SZ_VERSION + Max(SZ_MINIMUM, 4) + 8)

\* What holds of the scratch buffer once it is allocated: the writes lie
\* inside the block, the write cursor is at least SZ_MINIMUM, and the
\* packages have read no more than the profile data holds.
ScratchBufferBounds ==
    heap # "none" =>
        /\ wrange.hi < (rb_profile_end - rb_profile_begin) + SZ_MINIMUM
        /\ wrange.hi >= 0 => wrange.lo >= 0
        /\ local.offset >= SZ_MINIMUM
        /\ PacketBytes <= local.total

\* A package does not reach below the begin of the ring: its len is at most
\* address - rb_profile_begin, address being the read address after the
\* wrap point was handled.
PacketInsideRing ==
    (pc = "packet" /\ Len(cmds') > Len(cmds)) =>
        LET len == local.offset - local'.offset
            address == local'.address + len
        IN  /\ address > rb_profile_begin /\ address <= rb_profile_end
            /\ len <= address - rb_profile_begin

\* C27: in a Family-B foreach call every write into the scratch buffer, the
\* padding to the left of the write cursor included, stays inside
\* [0, rb_profile_end - rb_profile_begin + SZ_MINIMUM); the write cursor
\* never falls below SZ_MINIMUM; every package has len <= address -
\* rb_profile_begin; and the sum of len over the packages of the call never
\* exceeds the initial remaining.
C27_ScratchBufferWrites == []ScratchBufferBounds /\ [][PacketInsideRing]_vars

\* A call that has read all the profile data of two dives or more: the
\* cursor is down at SZ_MINIMUM, the padding of the last package was
\* written below it and the first package was written up to the top of the
\* data.
C27_Witness ==
    /\ pc = "done"
    /\ Len(dives) >= 2
    /\ local.total > 0
    /\ PacketBytes = local.total
    /\ local.offset = SZ_MINIMUM
    /\ wrange.lo < SZ_MINIMUM
    /\ wrange.hi = local.total + SZ_MINIMUM - 1

\* The head of the outer loop returns or goes on with a dive of at least 4
\* and at most remaining bytes.
OuterPassEnters ==
    pc = "loop" =>
        \/ pc' = "done"
        \/ /\ pc' = "packet"
           /\ local'.size >= 4
           /\ local'.size <= local.remaining

\* A pass of the inner loop reads a package of at least one byte, and adds
\* its length to nbytes unless the read fails.
InnerPassReads ==
    (pc = "packet" /\ local.nbytes < local.size) =>
        LET len == local.offset - local'.offset
        IN  /\ len >= 1
            /\ \/ pc' = "done" /\ rc' \in TransferErrors
               \/ pc' = "packet" /\ local'.nbytes = local.nbytes + len

\* The rest of a pass of the outer loop lowers remaining by the size of the
\* dive, and returns or goes back to the head of the loop.
OuterPassLowers ==
    (pc = "packet" /\ local.nbytes >= local.size) =>
        /\ local.size >= 4
        /\ local'.remaining = local.remaining - local.size
        /\ local'.remaining >= 0
        /\ pc' \in {"done", "loop"}

\* C28: a Family-B foreach call returns, whatever the memory and the header
\* hold, when every transfer returns: every pass of the outer loop returns
\* or lowers remaining by a size of at least 4, and every pass of the inner
\* loop reads at least one byte.
C28_ForeachTerminates ==
    /\ <>(pc = "done")
    /\ [][OuterPassEnters /\ InnerPassReads /\ OuterPassLowers]_vars

\* A call on a self-linked chain that went through the outer loop more than
\* once and has returned.
C28_Witness ==
    /\ pc = "done"
    /\ Len(dives) >= 2
    /\ SelfLinked(dives[1])
    /\ dives[1].outcome = "skipped"
    /\ local.remaining < local.total

-----------------------------------------------------------------------------
(* Properties of the Family-A extractor.                                   *)

\* C11: in read_dives an invocation the callback answered with false is the
\* last invocation of the call, and no call of read_memory is made after
\* the reads of that dive.
C11_AtomStopOnCallbackFalse ==
    \A i \in 1..Len(acalls) :
        ~acalls[i].ret
            => /\ i = Len(acalls)
               /\ Len(areads) = acalls[i].nreads

\* The device address of the logbook entry of the k-th newest dive.
LogbookEntryAddress(k) ==
    RB_LOGBOOK_BEGIN +
        ((amem.logbook_last - RB_LOGBOOK_BEGIN
            + (RB_LOGBOOK_END - RB_LOGBOOK_BEGIN) * k
            - (OCEANIC_ATOM2_PACKET_SIZE \div 2) * (k - 1))
         % (RB_LOGBOOK_END - RB_LOGBOOK_BEGIN))

\* The eight bytes the device holds for the k-th newest dive.
DeviceEntry(k) == [j \in 0..7 |-> AtomByte(amem, LogbookEntryAddress(k) + j)]

\* The address of the n-th byte of the profile ring counted from address a.
ProfileRingAddress(a, n) ==
    RB_PROFILE_BEGIN + ((a - RB_PROFILE_BEGIN + n) % (RB_PROFILE_END - RB_PROFILE_BEGIN))

\* A device whose pointers block and logbook entries hold pointers inside
\* their rings.
AtomPointersInRange ==
    /\ amem.logbook_first >= RB_LOGBOOK_BEGIN /\ amem.logbook_first < RB_LOGBOOK_END
    /\ amem.logbook_last >= RB_LOGBOOK_BEGIN /\ amem.logbook_last < RB_LOGBOOK_END
    /\ amem.entry # 0 =>
          \A x \in {amem.profile_first, amem.profile_last} :
             /\ x * OCEANIC_ATOM2_PACKET_SIZE >= RB_PROFILE_BEGIN
             /\ x * OCEANIC_ATOM2_PACKET_SIZE < RB_PROFILE_END

\* The k-th callback got the entry of the k-th newest dive followed by that
\* dive's profile, from its first packet to its last, in ring order.
CallbackHoldsDive(k) ==
    LET c == acalls[k]
        dev == DeviceEntry(k)
        first == PT_PROFILE_FIRST(dev) * OCEANIC_ATOM2_PACKET_SIZE
        last == PT_PROFILE_LAST(dev) * OCEANIC_ATOM2_PACKET_SIZE
        len == ATOM2_RB_PROFILE_DISTANCE(first, last) + OCEANIC_ATOM2_PACKET_SIZE
    IN  /\ c.entry = dev
        /\ c.size = len + 8
        /\ SegmentsSize(c.segments) = len
        /\ \A n \in {0, c.segments[1].size - 1, c.segments[1].size, len - 1} :
              (n >= 0 /\ n < len)
                 => SegmentAddress(c.segments, n) = ProfileRingAddress(first, n)

\* C14: on a device whose pointers are all inside their rings, every callback
\* of the Family-A extractor receives distance(profile_first, profile_last)
\* + packet size + 8 bytes: the 8 bytes of the dive's logbook entry, then the
\* dive's profile in ring order; and when the logbook holds one entry whose
\* two profile pointers are equal, a successful run has made exactly one
\* callback, of packet size + 8 bytes.
C14_AtomCallbackBuffer ==
    AtomPointersInRange =>
        /\ \A k \in 1..Len(acalls) : CallbackHoldsDive(k)
        /\ (/\ apc = "done" /\ arc = "SUCCESS" /\ acallback = "fn"
            /\ amem.logbook_first = amem.logbook_last
            /\ amem.entry = amem.logbook_first
            /\ amem.profile_first = amem.profile_last)
              => /\ Len(acalls) = 1
                 /\ acalls[1].size = OCEANIC_ATOM2_PACKET_SIZE + 8

\* The same holds of every logbook that is not full.
AtomCallbackBufferNotFull ==
    (RB_LOGBOOK_DISTANCE(amem.logbook_first, amem.logbook_last)
        + OCEANIC_ATOM2_PACKET_SIZE \div 2 < RB_LOGBOOK_END - RB_LOGBOOK_BEGIN)
        => C14_AtomCallbackBuffer

\* C15: when both logbook pointers of a Family-A device equal the sentinel
\* 0x0230, the extractor makes no callback and sends no read after the read
\* of the pointers block, and once that read has succeeded it returns
\* success.
C15_AtomEmptyLogbook ==
    (amem.logbook_first = RB_LOGBOOK_EMPTY /\ amem.logbook_last = RB_LOGBOOK_EMPTY)
        => /\ acalls = <<>>
           /\ Len(areads) <= 1
           /\ \A j \in 1..Len(areads) : areads[j].address = POINTERS_ADDRESS
           /\ (Len(areads) = 1 /\ areads[1].rc = "SUCCESS")
                 => (apc = "done" /\ arc = "SUCCESS")

C15_Witness ==
    /\ amem.logbook_first = RB_LOGBOOK_EMPTY
    /\ amem.logbook_last = RB_LOGBOOK_EMPTY
    /\ acallback = "fn"
    /\ areads = <<[address |-> POINTERS_ADDRESS,
                   size |-> OCEANIC_ATOM2_PACKET_SIZE,
                   rc |-> "SUCCESS"]>>
    /\ apc = "done"
    /\ arc = "SUCCESS"

-----------------------------------------------------------------------------
(* Properties of the record parser.                                        *)

\* The time of the step the j-th sample belongs to, counted in TIME samples.
StepTime(j) == 20 * Cardinality({k \in 1..j : psamples[k].type = "TIME"})

\* C17: the TIME samples of one record are 20, 40, 60, ... seconds, and the
\* samples of one step come in the order TIME, DEPTH, the EVENT samples by
\* ascending warning bit, and then, only in a step whose time is a multiple
\* of 60, one VENDOR sample, which a step that ran to its end at such a
\* time has.
C17_SampleOrder ==
    \A j \in 1..Len(psamples) :
        LET s == psamples[j]
            before == IF j > 1 THEN psamples[j - 1].type ELSE "NONE"
        IN  /\ s.type = "TIME" =>
                /\ s.time = StepTime(j)
                /\ before \in {"NONE", "DEPTH", "EVENT", "VENDOR"}
                /\ (before # "NONE" /\ StepTime(j - 1) % 60 = 0) => before = "VENDOR"
                /\ j < Len(psamples)
                /\ psamples[j + 1].type = "DEPTH"
            /\ s.type = "DEPTH" => before = "TIME"
            /\ s.type = "EVENT" =>
                \/ before = "DEPTH"
                \/ before = "EVENT" /\ psamples[j - 1].bit < s.bit
            /\ s.type = "VENDOR" =>
                /\ before \in {"DEPTH", "EVENT"}
                /\ StepTime(j) % 60 = 0

\* A run that delivered six events in one step and went through two steps
\* with a VENDOR sample.
C17_Witness ==
    /\ ppc = "done"
    /\ pstatus = "SUCCESS"
    /\ Cardinality({j \in 1..Len(psamples) : psamples[j].type = "VENDOR"}) = 2
    /\ \E j \in 1..Len(psamples) :
          /\ psamples[j].type = "TIME"
          /\ psamples[j].time = 140
    /\ \E j \in 1..(Len(psamples) - 7) :
          /\ psamples[j].type = "DEPTH"
          /\ \A i \in 1..6 : psamples[j + i].type = "EVENT"
          /\ psamples[j + 7].type = "VENDOR"

-----------------------------------------------------------------------------
(* Properties of both extractors.                                          *)

\* The other value of a callback argument.
OtherCallback(cb) == IF cb = "null" THEN "fn" ELSE "null"

\* The callback of the step answered false.
AnsweredStop ==
    /\ callback = "fn"
    /\ Len(dives') > Len(dives)
    /\ ~dives'[Len(dives')].ret

\* C18: a pass of the loop made with a null callback is a pass the same
\* call can make with a callback that answers true, and the other way
\* round: the same tests with the same results, the same read commands,
\* the same values of the local variables and the same returned status;
\* in the Family-B foreach and in the Family-A read_dives, whose only steps
\* that look at the callback are these passes.
C18_NullCallbackSameTraversal ==
    [][/\ (pc = "packet" /\ local.nbytes >= local.size /\ ~AnsweredStop)
             => ForeachDiveBody(OtherCallback(callback), {TRUE}, FALSE)
       /\ (apc = "entry" /\ astop = 0
             /\ (alocal.logbook_count < 0 \/ alocal.i < alocal.logbook_count))
             => ReadDivesEntryBody(OtherCallback(acallback), FALSE)]_vars

\* A Family-B call with a null callback that went through a chain of three
\* whole dives and returned success.
C18_Witness ==
    /\ callback = "null"
    /\ pc = "done"
    /\ rc = "SUCCESS"
    /\ Len(dives) = MaxDives
    /\ \A i \in 1..Len(dives) : dives[i].outcome = "nocallback"
    /\ Len(cmds) > MaxDives

-----------------------------------------------------------------------------
(* Properties of the Family-B device_read.                                 *)

\* The address and the length of the j-th chunk of the call.
ChunkAddress(j) == rreq.address + (j - 1) * SZ_PACKET
ChunkLen(j) == PackageLen(rreq.size, (j - 1) * SZ_PACKET)

\* C23: every read command a call of the Family-B read puts on the wire has
\* a count of at least min_read: the command of a chunk of len < min_read
\* bytes asks for min_read bytes at address - (min_read - len), the command
\* of any other chunk for the chunk itself; and the bytes kept are the bytes
\* of the range asked for, in order.
C23_MinReadEnforced ==
    /\ \A j \in 1..Len(rcmds) :
          /\ rcmds[j].count >= SZ_MINIMUM
          /\ rcmds[j] = IF ChunkLen(j) < SZ_MINIMUM
                           THEN [address |-> ChunkAddress(j) - (SZ_MINIMUM - ChunkLen(j)),
                                 count |-> SZ_MINIMUM]
                           ELSE [address |-> ChunkAddress(j), count |-> ChunkLen(j)]
    /\ \A i \in 1..Len(rdata) :
          rdata[i] = [address |-> rreq.address + i - 1,
                      byte |-> DataByte(rreq.address + i - 1)]

-----------------------------------------------------------------------------
(* Properties of the Family-A read_ringbuffer.                             *)

\* The precondition of read_ringbuffer.
RingbufferCallInRange ==
    /\ qreq.address >= qreq.begin
    /\ qreq.address < qreq.end
    /\ qreq.size <= qreq.end - qreq.begin

\* The address of the n-th byte of the ring of the call, counted from its
\* address.
RingbufferAddress(n) ==
    qreq.begin + ((qreq.address - qreq.begin + n) % (qreq.end - qreq.begin))

\* C24: a call of read_ringbuffer within its precondition fails no
\* assertion; it reads [address, address + size) in one call of read_memory
\* when that range ends at or before end, and otherwise [address, end) and
\* then [begin, begin + (size - (end - address))); when it succeeds, data
\* holds exactly size bytes, the bytes of the ring from address on in ring
\* order; when a call of read_memory fails, no further one is made and its
\* status is returned.
C24_RingbufferLinearised ==
    (qpc # "call" /\ RingbufferCallInRange) =>
        /\ qpc = "done"
        /\ IF qreq.address + qreq.size <= qreq.end
              THEN \A j \in 1..Len(qreads) :
                      /\ j = 1
                      /\ qreads[j].address = qreq.address
                      /\ qreads[j].size = qreq.size
              ELSE \A j \in 1..Len(qreads) :
                      /\ j <= 2
                      /\ j = 1 => /\ qreads[j].address = qreq.address
                                  /\ qreads[j].size = qreq.end - qreq.address
                      /\ j = 2 => /\ qreads[j].address = qreq.begin
                                  /\ qreads[j].size =
                                        qreq.size - (qreq.end - qreq.address)
        /\ \A j \in 1..Len(qreads) :
              qreads[j].rc # "SUCCESS" => (j = Len(qreads) /\ qstatus = qreads[j].rc)
        /\ qstatus = "SUCCESS" =>
              /\ \A j \in 1..Len(qreads) : qreads[j].rc = "SUCCESS"
              /\ Len(qreads) = IF qreq.address + qreq.size <= qreq.end THEN 1 ELSE 2
              /\ SegmentsSize(qdata) = qreq.size
              /\ \A n \in {0, qdata[1].size - 1, qdata[1].size, qreq.size - 1} :
                    (n >= 0 /\ n < qreq.size)
                       => SegmentAddress(qdata, n) = RingbufferAddress(n)

\* A call that passed the end of the profile ring and succeeded, and has
\* stored the last packet of the ring followed by its first two.
C24_Witness ==
    /\ qpc = "done"
    /\ qstatus = "SUCCESS"
    /\ RingbufferCallInRange
    /\ qdata = <<[address |-> RB_PROFILE_END - OCEANIC_ATOM2_PACKET_SIZE,
                  size |-> OCEANIC_ATOM2_PACKET_SIZE],
                 [address |-> RB_PROFILE_BEGIN,
                  size |-> 2 * OCEANIC_ATOM2_PACKET_SIZE]>>

-----------------------------------------------------------------------------
(* Family A: the position of the logbook entries in the array.             *)

\* The pointers block holds two logbook pointers that are entry-aligned and
\* inside the logbook ring.
LogbookPointersAligned ==
    \A x \in {amem.logbook_first, amem.logbook_last} :
       /\ x >= RB_LOGBOOK_BEGIN /\ x < RB_LOGBOOK_END
       /\ (x - RB_LOGBOOK_BEGIN) % (OCEANIC_ATOM2_PACKET_SIZE \div 2) = 0

\* The eight bytes at logbooks + cur lie inside the bytes the logbook read
\* stored and inside the array.
EntryInsideRead(cur) ==
    /\ cur >= 0
    /\ cur + OCEANIC_ATOM2_PACKET_SIZE \div 2 <= SegmentsSize(logbooks)
    /\ cur + OCEANIC_ATOM2_PACKET_SIZE \div 2 <= RB_LOGBOOK_END - RB_LOGBOOK_BEGIN

\* C26: with two entry-aligned logbook pointers inside the logbook ring,
\* every entry the Family-A extractor decodes, the one the loop is about to
\* decode and the ones it handed to the callback, lies inside the
\* logbook_page_len bytes that were read into the array logbooks and inside
\* the array.
C26_EntriesInsideLogbookRead ==
    LogbookPointersAligned =>
        /\ (apc = "entry" /\ alocal.i < alocal.logbook_count)
              => EntryInsideRead(alocal.current)
        /\ \A k \in 1..Len(acalls) : EntryInsideRead(acalls[k].current)

-----------------------------------------------------------------------------
(* Family A: one logbook pointer at the sentinel.                          *)

\* Exactly one of the two logbook pointers equals the sentinel.
OneLogbookSentinel ==
    (amem.logbook_first = RB_LOGBOOK_EMPTY) # (amem.logbook_last = RB_LOGBOOK_EMPTY)

\* C29: when exactly one of the logbook pointers of a Family-A device
\* equals the sentinel 0x0230, the extractor sends no read after the read of
\* the pointers block and makes no callback, and once that read has
\* succeeded the call returns a data-format error.
C29_OneSentinelIsDataFormat ==
    OneLogbookSentinel =>
        /\ acalls = <<>>
        /\ Len(areads) <= 1
        /\ (Len(areads) = 1 /\ areads[1].rc = "SUCCESS")
              => (apc = "done" /\ arc = "DATAFORMAT")

-----------------------------------------------------------------------------
(* The record parser: the status of samples_foreach.                       *)

\* The offset of the first sample word, the bytes of the record from there
\* on (none when the record ends before), the number of vendor bytes of the
\* model, and the bytes that three steps take: three words and the vendor
\* bytes of the third.
SamplesStart == HeaderSize(RecordByte(precord, 3)) + 18
SampleBytes == Max(precord.size - SamplesStart, 0)
VendorSize == IF is_oxygen(RecordByte(precord, 3)) THEN 2 ELSE 1
MinuteBytes == 6 + VendorSize

\* The record ends after the word of a step whose time is a multiple of 60
\* and before the last vendor byte of that step.
VendorBytesMissing == SampleBytes % MinuteBytes >= 6

\* The number of words of a record that holds every vendor byte it needs.
SampleWords == 3 * (SampleBytes \div MinuteBytes) + (SampleBytes % MinuteBytes) \div 2

\* C30: samples_foreach of the record parser returns DATAFORMAT exactly when
\* the record is shorter than 18 bytes or, in a step whose time is a
\* multiple of 60, the vendor bytes after the word (1, or 2 for the oxygen
\* models) are not all inside the record; otherwise it returns SUCCESS
\* after it decoded the 16-bit words from offset header + 18 on until fewer
\* than 2 bytes were left; and it never reads at or behind the end of the
\* record.
C30_SamplesStatus ==
    /\ phigh < precord.size
    /\ ppc = "done" =>
          /\ pstatus \in {"DATAFORMAT", "SUCCESS"}
          /\ pstatus = "DATAFORMAT"
                <=> (precord.size < 18 \/ VendorBytesMissing)
          /\ pstatus = "SUCCESS" =>
                /\ plocal.offset + 2 > precord.size
                /\ plocal.offset = SamplesStart + MinuteBytes * (SampleBytes \div MinuteBytes)
                                      + 2 * ((SampleBytes % MinuteBytes) \div 2)
                /\ pcallback = "fn" =>
                      /\ StepTime(Len(psamples)) = 20 * SampleWords
                      /\ SampleWords > 0 => phigh = plocal.offset - 1 \/ phigh = plocal.offset - 1 - VendorSize

\* A record of an oxygen model that ends between the two vendor bytes of
\* its second minute: five words were decoded and the call returned
\* DATAFORMAT.
C30_Witness ==
    /\ ppc = "done"
    /\ pstatus = "DATAFORMAT"
    /\ is_oxygen(RecordByte(precord, 3))
    /\ precord.size = SamplesStart + MinuteBytes + 7
    /\ pcallback = "fn"
    /\ StepTime(Len(psamples)) = 120

-----------------------------------------------------------------------------
(* The record parser: the ticks of get_datetime.                           *)

\* The quotient a / 2 over the integers, rounded towards zero and rounded
\* down.
HalfDown(a) == WideHalf(a)
HalfTowardsZero(a) ==
    IF a.hi >= 0 THEN WideHalf(a)
                 ELSE WideSub(Wide(0, 0), WideHalf(WideSub(Wide(0, 0), a)))

\* systime - (devtime - dive_timestamp) / 2 over the integers, with either
\* rounding of the quotient.
IntegerTicks ==
    LET diff == WideSub(dreq.devtime, dreq.record.stamp)
    IN  {WideSub(dreq.systime, HalfTowardsZero(diff)),
         WideSub(dreq.systime, HalfDown(diff))}

\* C31: for a record of at least 15 bytes get_datetime converts the ticks
\* systime - (devtime - dive_timestamp) / 2, computed over the integers from
\* the little-endian 32-bit timestamp at offset 11 of the record, whatever
\* 32-bit values devtime and the timestamp have, the timestamp above
\* devtime included; for a shorter record it returns DATAFORMAT and
\* converts nothing.
C31_DatetimeIntegerTicks ==
    /\ (dreq.record.size >= 15 /\ dpc \in {"localtime", "done"})
          => (Len(dticks) = 1 /\ dticks[1] \in IntegerTicks)
    /\ (dreq.record.size < 15 /\ dpc = "done")
          => (dstatus = "DATAFORMAT" /\ dticks = <<>>)

\* The same holds of every dive whose timestamp is not above devtime.
DatetimeTicksNotAfterDownload ==
    WideLeq(dreq.record.stamp, dreq.devtime) => C31_DatetimeIntegerTicks

=============================================================================
